---- MODULE Spec2Model ----
(***************************************************************************)
(* A model of the Toon dataset class (src/toon.ts).                        *)
(*                                                                         *)
(* A Toon holds { name, schema, rows }.  rows is a JavaScript array of     *)
(* row objects; several handles may hold the same row objects, so the      *)
(* model keeps the row objects in a heap and a handle lists object ids.    *)
(* JavaScript values are records [t, n, d, s]: a number is the fraction    *)
(* n/d in lowest terms (d = 0 is NaN), a string is the sequence s of its   *)
(* characters.  Numbers are binary floating point: every arithmetic result *)
(* is rounded to Precision significant bits, to nearest, ties to even (a   *)
(* double has 53; the exponent range is not bounded).  An object is the    *)
(* sequence of its own properties in the order Object.keys enumerates them.*)
(***************************************************************************)
EXTENDS Integers, Sequences, FiniteSets, TLC

VARIABLES heap, d, snap, cur, other, last, steps

vars == <<heap, d, snap, cur, other, last, steps>>

(***************************************************************************)
(* Bounds of the model.                                                    *)
(***************************************************************************)
MaxRows == 3
MaxSteps == 2
Precision == 6

(***************************************************************************)
(* Characters and strings.  Alphabet lists the characters the model uses   *)
(* in ascending UTF-16 code unit order, so Code compares as the code units *)
(* do.                                                                     *)
(***************************************************************************)
Alphabet ==
    <<"-", "0", "1", "2", "3", "4", "5", "6", "7", "8", "9", "N", "_",
      "a", "b", "c", "d", "e", "f", "g", "h", "i", "j", "k", "l", "m",
      "n", "o", "p", "q", "r", "s", "t", "u", "v", "w", "x", "y", "z">>

Code(c) == CHOOSE i \in 1..Len(Alphabet) : Alphabet[i] = c

IsDigit(c) == c \in {"0", "1", "2", "3", "4", "5", "6", "7", "8", "9"}

DigitVal(c) == Code(c) - Code("0")

DigitChar(n) == Alphabet[n + Code("0")]

Min2(a, b) == IF a < b THEN a ELSE b

Max2(a, b) == IF a > b THEN a ELSE b

Abs(a) == IF a < 0 THEN -a ELSE a

\* s < t in the order of the JavaScript relational operators on strings.
StrLT(s, t) ==
    LET n == Min2(Len(s), Len(t))
        diff == {i \in 1..n : s[i] # t[i]}
    IN  IF diff = {}
        THEN Len(s) < Len(t)
        ELSE LET i == CHOOSE j \in diff : \A k \in diff : j <= k
             IN  Code(s[i]) < Code(t[i])

RECURSIVE NatToStr(_)
NatToStr(n) ==
    IF n < 10 THEN <<DigitChar(n)>>
    ELSE NatToStr(n \div 10) \o <<DigitChar(n % 10)>>

IntToStr(n) == IF n < 0 THEN <<"-">> \o NatToStr(-n) ELSE NatToStr(n)

RECURSIVE DigitsToNat(_)
DigitsToNat(s) ==
    IF s = <<>> THEN 0
    ELSE 10 * DigitsToNat(SubSeq(s, 1, Len(s) - 1)) + DigitVal(s[Len(s)])

(***************************************************************************)
(* JavaScript values.                                                      *)
(***************************************************************************)
RECURSIVE Gcd(_, _)
Gcd(a, b) == IF b = 0 THEN a ELSE Gcd(b, a % b)

\* The number n/d, in lowest terms with a positive denominator.
Rat(n, dd) ==
    IF dd = 0 THEN [t |-> "num", n |-> 0, d |-> 0, s |-> <<>>]
    ELSE LET g == Gcd(Abs(n), Abs(dd))
             sg == IF dd < 0 THEN -1 ELSE 1
         IN  [t |-> "num", n |-> sg * (n \div g), d |-> sg * (dd \div g), s |-> <<>>]

Num(n) == [t |-> "num", n |-> n, d |-> 1, s |-> <<>>]

NaN == [t |-> "num", n |-> 0, d |-> 0, s |-> <<>>]

Str(s) == [t |-> "str", n |-> 0, d |-> 1, s |-> s]

Null == [t |-> "null", n |-> 0, d |-> 1, s |-> <<>>]

Undef == [t |-> "undef", n |-> 0, d |-> 1, s |-> <<>>]

TypeOf(v) == v.t

IsNaN(v) == v.t = "num" /\ v.d = 0

IsInt(v) == v.t = "num" /\ v.d = 1

RECURSIVE Pow2(_)
Pow2(k) == IF k <= 0 THEN 1 ELSE 2 * Pow2(k - 1)

\* The binary exponent e of the positive fraction a/dd:
\* 2^(Precision-1) <= a / (dd * 2^e) < 2^Precision.
RECURSIVE Exponent(_, _, _)
Exponent(a, dd, e) ==
    LET up == a * Pow2(-e)
        dn == dd * Pow2(e)
    IN  IF up >= Pow2(Precision) * dn THEN Exponent(a, dd, e + 1)
        ELSE IF up < Pow2(Precision - 1) * dn THEN Exponent(a, dd, e - 1)
        ELSE e

\* up / dn rounded to the nearest integer, ties to the even one.
RoundDiv(up, dn) ==
    LET q == up \div dn
        r == up % dn
    IN  IF 2 * r > dn \/ (2 * r = dn /\ q % 2 = 1) THEN q + 1 ELSE q

\* The floating point number nearest to n/dd.
Fl(n, dd) ==
    IF dd = 0 \/ n = 0 THEN Rat(n, dd)
    ELSE LET sg == IF (n < 0) # (dd < 0) THEN -1 ELSE 1
             a == Abs(n)
             b == Abs(dd)
             e == Exponent(a, b, 0)
             q == RoundDiv(a * Pow2(-e), b * Pow2(e))
         IN  Rat(sg * q * Pow2(e), Pow2(-e))

\* Arithmetic on numbers, each result rounded; NaN is absorbing.
NumAdd(a, b) == IF IsNaN(a) \/ IsNaN(b) THEN NaN ELSE Fl(a.n * b.d + b.n * a.d, a.d * b.d)

NumSub(a, b) == IF IsNaN(a) \/ IsNaN(b) THEN NaN ELSE Fl(a.n * b.d - b.n * a.d, a.d * b.d)

NumMul(a, b) == IF IsNaN(a) \/ IsNaN(b) THEN NaN ELSE Fl(a.n * b.n, a.d * b.d)

\* a / b for b # 0
NumDiv(a, b) == IF IsNaN(a) \/ IsNaN(b) THEN NaN ELSE Fl(a.n * b.d, a.d * b.n)

\* a < b, a <= b on numbers: false when either is NaN.
NumLT(a, b) == ~IsNaN(a) /\ ~IsNaN(b) /\ a.n * b.d < b.n * a.d

NumLE(a, b) == ~IsNaN(a) /\ ~IsNaN(b) /\ a.n * b.d <= b.n * a.d

\* Number("...") on the strings of the model: the empty string is 0, an
\* optionally signed run of decimal digits is that integer, anything else NaN.
StrToNum(s) ==
    IF s = <<>> THEN Num(0)
    ELSE LET neg == s[1] = "-"
             body == IF neg THEN Tail(s) ELSE s
         IN  IF body # <<>> /\ \A i \in 1..Len(body) : IsDigit(body[i])
             THEN Num((IF neg THEN -1 ELSE 1) * DigitsToNat(body))
             ELSE NaN

\* Number(v)
ToNumber(v) ==
    CASE v.t = "num" -> v
      [] v.t = "null" -> Num(0)
      [] v.t = "undef" -> NaN
      [] v.t = "str" -> StrToNum(v.s)

\* String(v); the model applies it to integers, NaN, null, undefined and
\* strings only (the decimal expansion of a fraction is not modelled).
JsString(v) ==
    CASE v.t = "str" -> v.s
      [] v.t = "null" -> <<"n", "u", "l", "l">>
      [] v.t = "undef" -> <<"u", "n", "d", "e", "f", "i", "n", "e", "d">>
      [] v.t = "num" /\ v.d = 0 -> <<"N", "a", "N">>
      [] v.t = "num" /\ v.d = 1 -> IntToStr(v.n)

\* a === b
StrictEq(a, b) == a = b /\ ~IsNaN(a)

\* SameValueZero, the equality of Map and Set keys
SameValueZero(a, b) == a = b

(***************************************************************************)
(* Objects: sequences of entries [k, v] in property enumeration order.     *)
(* An integer-like key ("0", "7", "12": an array index) is enumerated      *)
(* before every other key, in ascending numeric order; the other keys in   *)
(* the order they were first set.                                          *)
(***************************************************************************)
MaxIndexStr == <<"4", "2", "9", "4", "9", "6", "7", "2", "9", "4">>

IsArrayIndex(k) ==
    /\ k # <<>>
    /\ \A i \in 1..Len(k) : IsDigit(k[i])
    /\ (Len(k) = 1 \/ k[1] # "0")
    /\ (Len(k) < 10 \/ (Len(k) = 10 /\ (k = MaxIndexStr \/ StrLT(k, MaxIndexStr))))

\* index keys compare by value: shorter is smaller, equal lengths by digits
IndexLT(a, b) == Len(a) < Len(b) \/ (Len(a) = Len(b) /\ StrLT(a, b))

ObjHas(o, k) == \E i \in 1..Len(o) : o[i].k = k

ObjGet(o, k) ==
    IF ObjHas(o, k) THEN o[CHOOSE i \in 1..Len(o) : o[i].k = k].v ELSE Undef

ObjKeys(o) == [i \in 1..Len(o) |-> o[i].k]

KeySet(o) == {o[i].k : i \in 1..Len(o)}

\* o[k] = v
ObjSet(o, k, v) ==
    IF ObjHas(o, k)
    THEN [i \in 1..Len(o) |-> IF o[i].k = k THEN [k |-> k, v |-> v] ELSE o[i]]
    ELSE IF IsArrayIndex(k)
         THEN LET before == {i \in 1..Len(o) : IsArrayIndex(o[i].k) /\ IndexLT(o[i].k, k)}
                  p == Cardinality(before)
              IN  SubSeq(o, 1, p) \o <<[k |-> k, v |-> v]>> \o SubSeq(o, p + 1, Len(o))
         ELSE Append(o, [k |-> k, v |-> v])

\* { ...a, ...b }
RECURSIVE ObjAssign(_, _)
ObjAssign(a, b) ==
    IF b = <<>> THEN a
    ELSE ObjAssign(ObjSet(a, b[1].k, b[1].v), Tail(b))

\* { ...a }
ObjCopy(a) == ObjAssign(<<>>, a)

(***************************************************************************)
(* Handles and the heap of row objects.  A handle is the ToonDataset a     *)
(* Toon holds: name, schema and the array of row object ids.               *)
(***************************************************************************)
F_id == <<"i", "d">>

F_val == <<"v", "a", "l">>

F_uid == <<"u", "i", "d">>

F_tag == <<"t", "a", "g">>

\* what all(), schema() and getName() read through handle h
View(h, hp) ==
    [name |-> h.name, schema |-> h.schema,
     rows |-> [i \in 1..Len(h.rows) |-> hp[h.rows[i]]]]

NewIds(hp, n) == [i \in 1..n |-> Len(hp) + i]

\* new Toon({ ...this.dataset, rows })
WithRows(h, ids) == [name |-> h.name, schema |-> h.schema, rows |-> ids]

\* the record of the latest call: the operation, what its operands held
\* when it was called, its arguments and (for a query) its result
Call(op, arg, out, threw) ==
    [op |-> op, src |-> View(cur, heap), ids |-> cur.rows,
     oth |-> View(other, heap), arg |-> arg, out |-> out, threw |-> threw]

\* a call on the current handle that returns the handle h2 over heap hp2
Returns(op, arg, h2, hp2) ==
    /\ steps > 0
    /\ steps' = steps - 1
    /\ heap' = hp2
    /\ cur' = h2
    /\ last' = Call(op, arg, <<>>, FALSE)
    /\ UNCHANGED <<d, snap, other>>

\* a call on the current handle that returns a plain result
Answers(op, arg, out) ==
    /\ steps > 0
    /\ steps' = steps - 1
    /\ last' = Call(op, arg, out, FALSE)
    /\ UNCHANGED <<heap, d, snap, cur, other>>

\* ascending list of the members of a set of naturals
RECURSIVE SortedSeq(_)
SortedSeq(S) ==
    IF S = {} THEN <<>>
    ELSE LET m == CHOOSE x \in S : \A y \in S : x <= y
         IN  <<m>> \o SortedSeq(S \ {m})

(***************************************************************************)
(* filter: rows.filter(predicate).  The predicate is called with (row,     *)
(* index), so any choice of the kept positions is the outcome of some      *)
(* predicate: keep[i] is the predicate's answer for row i.                 *)
(***************************************************************************)
\* mutant: the predicate's answer is read negated
FilterNegated(rows, keep) == SortedSeq({i \in 1..Len(rows) : ~keep[i]})

Filter(rows, keep) == SortedSeq({i \in 1..Len(rows) : keep[i]})

DoFilter ==
    /\ steps > 0
    /\ \E keep \in [1..Len(cur.rows) -> BOOLEAN] :
           LET idx == Filter(View(cur, heap).rows, keep)
           IN  Returns("filter", keep,
                       WithRows(cur, [i \in 1..Len(idx) |-> cur.rows[idx[i]]]), heap)

(***************************************************************************)
(* sortBy: [...rows].sort(comparator).                                     *)
(***************************************************************************)
Sign(x) == IF x < 0 THEN -1 ELSE IF x > 0 THEN 1 ELSE 0

\* the comparator's value for one field on which aVal !== bVal; a NaN
\* difference is returned as it is and Array.prototype.sort reads NaN as +0
FieldComparison(aVal, bVal, order) ==
    LET comparison ==
            IF TypeOf(aVal) = "num" /\ TypeOf(bVal) = "num"
            THEN IF IsNaN(aVal) \/ IsNaN(bVal) THEN 0
                 ELSE Sign(NumSub(aVal, bVal).n)
            ELSE IF StrLT(JsString(bVal), JsString(aVal)) THEN 1 ELSE -1
    IN  IF order = "asc" THEN comparison ELSE -comparison

\* the arrow function passed to sort: -1, 0 or 1
RECURSIVE SortByCompare(_, _, _)
SortByCompare(a, b, fields) ==
    IF fields = <<>> THEN 0
    ELSE LET aVal == ObjGet(a, fields[1].field)
             bVal == ObjGet(b, fields[1].field)
         IN  IF StrictEq(aVal, bVal)
             THEN SortByCompare(a, b, Tail(fields))
             ELSE FieldComparison(aVal, bVal, fields[1].order)

Perms(n) == {p \in [1..n -> 1..n] : \A i, j \in 1..n : p[i] = p[j] => i = j}

\* ECMAScript: a comparator is consistent for a set of values when it gives
\* a strict weak order on them
ConsistentOn(rows, fields) ==
    LET n == Len(rows)
        c(i, j) == SortByCompare(rows[i], rows[j], fields)
    IN  /\ \A i \in 1..n : c(i, i) = 0
        /\ \A i, j \in 1..n : c(i, j) = -c(j, i)
        /\ \A i, j, k \in 1..n :
              /\ (c(i, j) = 0 /\ c(j, k) = 0) => c(i, k) = 0
              /\ (c(i, j) < 0 /\ c(j, k) < 0) => c(i, k) < 0

\* Array.prototype.sort is stable; with a comparator that is not consistent
\* the order of the result is implementation-defined (still a permutation)
SortByPerms(rows, fields) ==
    IF ConsistentOn(rows, fields)
    THEN {p \in Perms(Len(rows)) :
            \A i, j \in 1..Len(rows) : i < j =>
                LET c == SortByCompare(rows[p[i]], rows[p[j]], fields)
                IN  c < 0 \/ (c = 0 /\ p[i] < p[j])}
    ELSE Perms(Len(rows))

\* String(v) is modelled for every value the field holds
StringSafe(rows, f) ==
    \A i \in 1..Len(rows) :
        LET v == ObjGet(rows[i], f) IN v.t = "num" => v.d \in {0, 1}

Orders == {"asc", "desc"}

SortKeys(fs) == [field : fs, order : Orders]

SortArgs(fs) == UNION {[1..m -> SortKeys(fs)] : m \in 0..2}

DoSortBy ==
    /\ steps > 0
    /\ \E fields \in SortArgs({F_id, F_val}) :
           /\ \A i \in 1..Len(fields) : StringSafe(View(cur, heap).rows, fields[i].field)
           /\ \E p \in SortByPerms(View(cur, heap).rows, fields) :
                 Returns("sortBy", fields,
                         WithRows(cur, [i \in 1..Len(cur.rows) |-> cur.rows[p[i]]]), heap)

(***************************************************************************)
(* join                                                                    *)
(***************************************************************************)
RECURSIVE Flatten(_)
Flatten(ss) == IF ss = <<>> THEN <<>> ELSE ss[1] \o Flatten(Tail(ss))

\* a == b on the values of the model
LooseEq(a, b) ==
    IF a.t = b.t THEN StrictEq(a, b)
    ELSE IF a.t \in {"null", "undef"} \/ b.t \in {"null", "undef"}
         THEN a.t \in {"null", "undef"} /\ b.t \in {"null", "undef"}
         ELSE StrictEq(ToNumber(a), ToNumber(b))

\* mutant: the keys are compared with ==, which coerces
JoinMatchesLoose(row, key, others, otherKey) ==
    LET idx == SortedSeq({j \in 1..Len(others) :
                   LooseEq(ObjGet(row, key), ObjGet(others[j], otherKey))})
    IN  [i \in 1..Len(idx) |-> others[idx[i]]]

\* rows.filter(r => row[key] === r[otherKey])
JoinMatches(row, key, others, otherKey) ==
    LET idx == SortedSeq({j \in 1..Len(others) :
                   StrictEq(ObjGet(row, key), ObjGet(others[j], otherKey))})
    IN  [i \in 1..Len(idx) |-> others[idx[i]]]

JoinRows(left, right, leftKey, rightKey, type) ==
    IF type = "right"
    THEN Flatten([j \in 1..Len(right) |->
            LET matches == JoinMatches(right[j], rightKey, left, leftKey)
            IN  IF Len(matches) > 0
                THEN [m \in 1..Len(matches) |-> ObjAssign(ObjCopy(matches[m]), right[j])]
                ELSE <<ObjCopy(right[j])>>])
    ELSE Flatten([i \in 1..Len(left) |->
            LET matches == JoinMatches(left[i], leftKey, right, rightKey)
            IN  IF Len(matches) > 0
                THEN [m \in 1..Len(matches) |-> ObjAssign(ObjCopy(left[i]), matches[m])]
                ELSE IF type = "left" THEN <<ObjCopy(left[i])>> ELSE <<>>])

Join(l, r, leftKey, rightKey, type) ==
    [name |-> l.name \o "_joined",
     schema |-> ObjAssign(ObjCopy(l.schema), r.schema),
     rows |-> JoinRows(l.rows, r.rows, leftKey, rightKey, type)]

\* a call that returns a handle over freshly built row objects
ReturnsNew(op, arg, res) ==
    Returns(op, arg,
            [name |-> res.name, schema |-> res.schema,
             rows |-> NewIds(heap, Len(res.rows))],
            heap \o res.rows)

KeyPairs == {<<F_id, F_uid>>, <<F_val, F_val>>}

DoJoin ==
    /\ steps > 0
    /\ \E keys \in KeyPairs, type \in {"inner", "left", "right"} :
           ReturnsNew("join", [leftKey |-> keys[1], rightKey |-> keys[2], type |-> type],
                      Join(View(cur, heap), View(other, heap), keys[1], keys[2], type))

(***************************************************************************)
(* merge                                                                   *)
(***************************************************************************)
Suffixes == << <<"_", "x">>, <<"_", "y">> >>

\* an option that is not given (undefined)
NoKey == <<>>

MergeSchema(leftSchema, rightSchema, leftOn, rightOn, suffixes) ==
    LET fromLeft ==
            [i \in 1..Len(leftSchema) |->
                IF ObjHas(rightSchema, leftSchema[i].k) /\ leftSchema[i].k # leftOn
                THEN [k |-> leftSchema[i].k \o suffixes[1], v |-> leftSchema[i].v]
                ELSE leftSchema[i]]
        fromRight ==
            Flatten([i \in 1..Len(rightSchema) |->
                IF ObjHas(leftSchema, rightSchema[i].k) /\ rightSchema[i].k # rightOn
                THEN <<[k |-> rightSchema[i].k \o suffixes[2], v |-> rightSchema[i].v]>>
                ELSE IF ~ObjHas(leftSchema, rightSchema[i].k)
                     THEN <<rightSchema[i]>>
                     ELSE <<>>])
    IN  ObjAssign(ObjAssign(<<>>, fromLeft), fromRight)

\* the merged object built from a left row and a right row
MergedRow(leftRow, rightRow, leftOn, rightOn, suffixes) ==
    LET fromLeft ==
            [i \in 1..Len(leftRow) |->
                IF ObjHas(rightRow, leftRow[i].k) /\ leftRow[i].k # leftOn
                THEN [k |-> leftRow[i].k \o suffixes[1], v |-> leftRow[i].v]
                ELSE leftRow[i]]
        fromRight ==
            Flatten([i \in 1..Len(rightRow) |->
                IF ObjHas(leftRow, rightRow[i].k) /\ rightRow[i].k # rightOn
                THEN <<[k |-> rightRow[i].k \o suffixes[2], v |-> rightRow[i].v]>>
                ELSE IF ~ObjHas(leftRow, rightRow[i].k)
                     THEN <<rightRow[i]>>
                     ELSE <<>>])
    IN  ObjAssign(ObjAssign(<<>>, fromLeft), fromRight)

\* rightIndex.get(leftRow[leftOn]) || []
MergeMatches(leftRow, leftOn, right, rightOn) ==
    LET idx == SortedSeq({j \in 1..Len(right) :
                   SameValueZero(ObjGet(leftRow, leftOn), ObjGet(right[j], rightOn))})
    IN  [i \in 1..Len(idx) |-> right[idx[i]]]

\* mutant: the matched keys are looked up with ===, which never finds NaN
MergeUnmatchedRightStrict(left, leftOn, rightRow, rightOn) ==
    ~\E i \in 1..Len(left) :
        StrictEq(ObjGet(left[i], leftOn), ObjGet(rightRow, rightOn))

\* !matchedRightKeys.has(rightRow[rightOn])
MergeUnmatchedRight(left, leftOn, rightRow, rightOn) ==
    ~\E i \in 1..Len(left) :
        SameValueZero(ObjGet(left[i], leftOn), ObjGet(rightRow, rightOn))

MergeRows(left, right, leftOn, rightOn, how, suffixes) ==
    IF how = "cross"
    THEN Flatten([i \in 1..Len(left) |->
            [j \in 1..Len(right) |->
                MergedRow(left[i], right[j], leftOn, rightOn, suffixes)]])
    ELSE Flatten([i \in 1..Len(left) |->
            LET matches == MergeMatches(left[i], leftOn, right, rightOn)
            IN  IF Len(matches) > 0
                THEN [m \in 1..Len(matches) |->
                        MergedRow(left[i], matches[m], leftOn, rightOn, suffixes)]
                ELSE IF how \in {"left", "outer"} THEN <<ObjCopy(left[i])>> ELSE <<>>])
         \o
         (IF how \in {"right", "outer"}
          THEN Flatten([j \in 1..Len(right) |->
                  IF MergeUnmatchedRight(left, leftOn, right[j], rightOn)
                  THEN <<ObjCopy(right[j])>> ELSE <<>>])
          ELSE <<>>)

Merge(l, r, leftOn, rightOn, how, suffixes) ==
    [name |-> l.name \o "_merged",
     schema |-> MergeSchema(l.schema, r.schema, leftOn, rightOn, suffixes),
     rows |-> MergeRows(l.rows, r.rows, leftOn, rightOn, how, suffixes)]

\* a call that throws: no handle is returned
Throws(op, arg) ==
    /\ steps > 0
    /\ steps' = steps - 1
    /\ last' = Call(op, arg, <<>>, TRUE)
    /\ UNCHANGED <<heap, d, snap, cur, other>>

MergeHows == {"inner", "left", "right", "outer", "cross"}

DoMerge ==
    /\ steps > 0
    /\ \E keys \in KeyPairs \cup {<<NoKey, NoKey>>}, how \in MergeHows :
           LET arg == [leftOn |-> keys[1], rightOn |-> keys[2], how |-> how]
           IN  IF how # "cross" /\ (keys[1] = NoKey \/ keys[2] = NoKey)
               THEN Throws("merge", arg)
               ELSE ReturnsNew("merge", arg,
                        Merge(View(cur, heap), View(other, heap),
                              keys[1], keys[2], how, Suffixes))

(***************************************************************************)
(* groupBy, aggregate, stats                                               *)
(***************************************************************************)
\* rows.reduce((acc, row) => { acc[String(row[field])].push(row) }, {}):
\* an object from each key to the list of its rows (their positions)
RECURSIVE GroupByFrom(_, _, _, _)
GroupByFrom(rows, field, i, acc) ==
    IF i > Len(rows) THEN acc
    ELSE LET key == JsString(ObjGet(rows[i], field))
             soFar == IF ObjHas(acc, key) THEN ObjGet(acc, key) ELSE <<>>
         IN  GroupByFrom(rows, field, i + 1, ObjSet(acc, key, Append(soFar, i)))

GroupBy(rows, field) == GroupByFrom(rows, field, 1, <<>>)

DoGroupBy ==
    /\ steps > 0
    /\ \E field \in {F_id, F_val} :
           /\ StringSafe(View(cur, heap).rows, field)
           /\ Answers("groupBy", field, GroupBy(View(cur, heap).rows, field))

\* rows.map(row => Number(row[field])).filter(v => !isNaN(v))
ValidNumbers(rows, field) ==
    LET idx == SortedSeq({i \in 1..Len(rows) : ~IsNaN(ToNumber(ObjGet(rows[i], field)))})
    IN  [i \in 1..Len(idx) |-> ToNumber(ObjGet(rows[idx[i]], field))]

\* values.reduce((a, b) => a + b, 0)
RECURSIVE SumSeq(_)
SumSeq(values) ==
    IF values = <<>> THEN Num(0)
    ELSE NumAdd(SumSeq(SubSeq(values, 1, Len(values) - 1)), values[Len(values)])

\* Math.min(...values), Math.max(...values) of a non-empty list
MinSeq(values) ==
    values[CHOOSE i \in 1..Len(values) : \A j \in 1..Len(values) : NumLE(values[i], values[j])]

MaxSeq(values) ==
    values[CHOOSE i \in 1..Len(values) : \A j \in 1..Len(values) : NumLE(values[j], values[i])]

\* mutant: count is the number of valid values, as pivot counts
AggregateValueCountsValid(rows, config) ==
    LET values == ValidNumbers(rows, config.field)
    IN  CASE config.op = "sum" -> SumSeq(values)
          [] config.op = "avg" ->
                IF Len(values) > 0 THEN NumDiv(SumSeq(values), Num(Len(values))) ELSE Num(0)
          [] config.op = "min" -> IF Len(values) > 0 THEN MinSeq(values) ELSE Null
          [] config.op = "max" -> IF Len(values) > 0 THEN MaxSeq(values) ELSE Null
          [] config.op = "count" -> Num(Len(values))

AggregateValue(rows, config) ==
    LET values == ValidNumbers(rows, config.field)
    IN  CASE config.op = "sum" -> SumSeq(values)
          [] config.op = "avg" ->
                IF Len(values) > 0 THEN NumDiv(SumSeq(values), Num(Len(values))) ELSE Num(0)
          [] config.op = "min" -> IF Len(values) > 0 THEN MinSeq(values) ELSE Null
          [] config.op = "max" -> IF Len(values) > 0 THEN MaxSeq(values) ELSE Null
          [] config.op = "count" -> Num(Len(rows))

RECURSIVE AggregateRow(_, _, _)
AggregateRow(acc, rows, aggregations) ==
    IF aggregations = <<>> THEN acc
    ELSE AggregateRow(ObjSet(acc, aggregations[1].k,
                             AggregateValue(rows, aggregations[1].v)),
                      rows, Tail(aggregations))

Aggregate(ds, groupField, aggregations) ==
    LET grouped == GroupBy(ds.rows, groupField)
    IN  [name |-> ds.name \o "_aggregated",
         schema |-> ObjAssign(<<[k |-> groupField, v |-> "string"]>>,
                              [i \in 1..Len(aggregations) |->
                                  [k |-> aggregations[i].k, v |-> "number"]]),
         rows |-> [g \in 1..Len(grouped) |->
                     AggregateRow(<<[k |-> groupField, v |-> Str(grouped[g].k)]>>,
                                  [i \in 1..Len(grouped[g].v) |-> ds.rows[grouped[g].v[i]]],
                                  aggregations)]]

AggOps == {"sum", "avg", "min", "max", "count"}

A_a == <<"a">>

A_b == <<"b">>

\* the aggregations objects the model passes: one alias over val, or two
\* aliases over val and id
Aggregations ==
    {<<[k |-> A_a, v |-> [field |-> F_val, op |-> op]]>> : op \in AggOps}
    \cup {<<[k |-> A_a, v |-> [field |-> F_val, op |-> op]],
            [k |-> A_b, v |-> [field |-> F_id, op |-> op]]>> : op \in AggOps}

DoAggregate ==
    /\ steps > 0
    /\ \E groupField \in {F_id, F_val}, aggregations \in Aggregations :
           /\ StringSafe(View(cur, heap).rows, groupField)
           /\ ReturnsNew("aggregate", [groupField |-> groupField, aggregations |-> aggregations],
                         Aggregate(View(cur, heap), groupField, aggregations))

\* mutant: the average divides by the number of rows
StatsAvgOverRows(rows, field) ==
    LET values == ValidNumbers(rows, field)
    IN  IF Len(values) = 0
        THEN [min |-> Num(0), max |-> Num(0), avg |-> Num(0), sum |-> Num(0), count |-> Num(0)]
        ELSE [min |-> MinSeq(values), max |-> MaxSeq(values),
              avg |-> NumDiv(SumSeq(values), Num(Len(rows))),
              sum |-> SumSeq(values), count |-> Num(Len(values))]

Stats(rows, field) ==
    LET values == ValidNumbers(rows, field)
    IN  IF Len(values) = 0
        THEN [min |-> Num(0), max |-> Num(0), avg |-> Num(0), sum |-> Num(0), count |-> Num(0)]
        ELSE [min |-> MinSeq(values), max |-> MaxSeq(values),
              avg |-> NumDiv(SumSeq(values), Num(Len(values))),
              sum |-> SumSeq(values), count |-> Num(Len(values))]

DoStats ==
    /\ steps > 0
    /\ \E field \in {F_id, F_val, F_tag} :
           Answers("stats", field, Stats(View(cur, heap).rows, field))

(***************************************************************************)
(* clone, sort, select, exclude, rename, addField                          *)
(***************************************************************************)
\* new Toon({ ...this.dataset, rows: [...this.dataset.rows] }): a new array
\* of the same row objects
DoClone == Returns("clone", <<>>, WithRows(cur, cur.rows), heap)

\* [...rows].sort(compareFn): the comparator is the caller's, so any
\* permutation of the rows is the outcome of some comparator
DoSort ==
    /\ steps > 0
    /\ \E p \in Perms(Len(cur.rows)) :
           Returns("sort", p, WithRows(cur, [i \in 1..Len(cur.rows) |-> cur.rows[p[i]]]), heap)

\* the object that holds, for each listed field the object o has, o's entry
RECURSIVE PickFields(_, _, _)
PickFields(acc, o, fields) ==
    IF fields = <<>> THEN acc
    ELSE PickFields(IF ObjHas(o, fields[1]) THEN ObjSet(acc, fields[1], ObjGet(o, fields[1]))
                    ELSE acc,
                    o, Tail(fields))

Select(ds, fields) ==
    [name |-> ds.name,
     schema |-> PickFields(<<>>, ds.schema, fields),
     rows |-> [i \in 1..Len(ds.rows) |-> PickFields(<<>>, ds.rows[i], fields)]]

\* Object.keys(schema).filter(field => !fields.includes(field))
Remaining(schema, fields) ==
    LET idx == SortedSeq({i \in 1..Len(schema) :
                   \A j \in 1..Len(fields) : fields[j] # schema[i].k})
    IN  [i \in 1..Len(idx) |-> schema[idx[i]].k]

Exclude(ds, fields) == Select(ds, Remaining(ds.schema, fields))

\* the object with every key of o, oldField replaced by newField
RECURSIVE RenameKeys(_, _, _, _)
RenameKeys(acc, o, oldField, newField) ==
    IF o = <<>> THEN acc
    ELSE RenameKeys(ObjSet(acc, IF o[1].k = oldField THEN newField ELSE o[1].k, o[1].v),
                    Tail(o), oldField, newField)

Rename(ds, oldField, newField) ==
    [name |-> ds.name,
     schema |-> RenameKeys(<<>>, ds.schema, oldField, newField),
     rows |-> [i \in 1..Len(ds.rows) |-> RenameKeys(<<>>, ds.rows[i], oldField, newField)]]

\* the callbacks the model passes to addField
Callbacks == {"zero", "val"}

CallbackValue(cb, row) == IF cb = "zero" THEN Num(0) ELSE ObjGet(row, F_val)

AddField(ds, field, cb) ==
    [name |-> ds.name,
     schema |-> ObjAssign(ObjCopy(ds.schema), <<[k |-> field, v |-> "string"]>>),
     rows |-> [i \in 1..Len(ds.rows) |->
                 ObjAssign(ObjCopy(ds.rows[i]),
                           <<[k |-> field, v |-> CallbackValue(cb, ds.rows[i])]>>)]]

FieldLists == {<<F_id>>, <<F_val, F_id>>, <<F_val, F_tag>>}

DoSelect ==
    /\ steps > 0
    /\ \E fields \in FieldLists :
           ReturnsNew("select", fields, Select(View(cur, heap), fields))

DoExclude ==
    /\ steps > 0
    /\ \E fields \in FieldLists :
           ReturnsNew("exclude", fields, Exclude(View(cur, heap), fields))

DoRename ==
    /\ steps > 0
    /\ \E names \in {<<F_val, F_tag>>, <<F_id, F_val>>, <<F_tag, F_id>>} :
           ReturnsNew("rename", names, Rename(View(cur, heap), names[1], names[2]))

DoAddField ==
    /\ steps > 0
    /\ \E field \in {F_tag, F_val}, cb \in Callbacks :
           ReturnsNew("addField", [field |-> field, cb |-> cb],
                      AddField(View(cur, heap), field, cb))

(***************************************************************************)
(* melt, pivot                                                             *)
(***************************************************************************)
S_variable == <<"v", "a", "r", "i", "a", "b", "l", "e">>

S_value == <<"v", "a", "l", "u", "e">>

\* newRow[idVar] = row[idVar] for each idVar
RECURSIVE CopyIdVars(_, _, _)
CopyIdVars(acc, row, idVars) ==
    IF idVars = <<>> THEN acc
    ELSE CopyIdVars(ObjSet(acc, idVars[1], ObjGet(row, idVars[1])), row, Tail(idVars))

\* newSchema[v] = schema[v] || 'string' for each idVar
RECURSIVE IdVarSchema(_, _, _)
IdVarSchema(acc, schema, idVars) ==
    IF idVars = <<>> THEN acc
    ELSE IdVarSchema(ObjSet(acc, idVars[1],
                            IF ObjHas(schema, idVars[1]) THEN ObjGet(schema, idVars[1])
                            ELSE "string"),
                     schema, Tail(idVars))

\* valueVars is not given: the value columns are the schema's other fields
Melt(ds, idVars, varName, valueName) ==
    LET valueCols == Remaining(ds.schema, idVars)
    IN  [name |-> ds.name \o "_melted",
         schema |-> ObjSet(ObjSet(IdVarSchema(<<>>, ds.schema, idVars), varName, "string"),
                           valueName, "unknown"),
         rows |-> Flatten([i \in 1..Len(ds.rows) |->
                    [c \in 1..Len(valueCols) |->
                        ObjSet(ObjSet(CopyIdVars(<<>>, ds.rows[i], idVars),
                                      varName, Str(valueCols[c])),
                               valueName, ObjGet(ds.rows[i], valueCols[c]))]])]

DoMelt ==
    /\ steps > 0
    /\ \E idVars \in {<<F_id>>, <<F_tag>>} :
           ReturnsNew("melt", idVars, Melt(View(cur, heap), idVars, S_variable, S_value))

\* [...new Set(rows.map(row => row[field]))]: the distinct values in the
\* order of their first occurrence
Distinct(rows, field) ==
    LET v(i) == ObjGet(rows[i], field)
        firsts == SortedSeq({i \in 1..Len(rows) :
                      \A j \in 1..(i - 1) : ~SameValueZero(v(j), v(i))})
    IN  [i \in 1..Len(firsts) |-> v(firsts[i])]

\* one cell of the pivot table
PivotCell(rows, index, columns, values, aggFunc, indexValue, columnValue) ==
    LET filtered == SortedSeq({i \in 1..Len(rows) :
                        /\ StrictEq(ObjGet(rows[i], index), indexValue)
                        /\ StrictEq(ObjGet(rows[i], columns), columnValue)})
        vals == ValidNumbers([i \in 1..Len(filtered) |-> rows[filtered[i]]], values)
    IN  IF Len(filtered) = 0 \/ Len(vals) = 0 THEN Null
        ELSE CASE aggFunc = "sum" -> SumSeq(vals)
               [] aggFunc = "avg" -> NumDiv(SumSeq(vals), Num(Len(vals)))
               [] aggFunc = "min" -> MinSeq(vals)
               [] aggFunc = "max" -> MaxSeq(vals)
               [] aggFunc = "count" -> Num(Len(vals))

RECURSIVE PivotRow(_, _, _, _, _, _, _, _)
PivotRow(acc, rows, index, columns, values, aggFunc, indexValue, columnValues) ==
    IF columnValues = <<>> THEN acc
    ELSE PivotRow(ObjSet(acc, JsString(columnValues[1]),
                         PivotCell(rows, index, columns, values, aggFunc,
                                   indexValue, columnValues[1])),
                  rows, index, columns, values, aggFunc, indexValue, Tail(columnValues))

RECURSIVE PivotSchema(_, _)
PivotSchema(acc, columnValues) ==
    IF columnValues = <<>> THEN acc
    ELSE PivotSchema(ObjSet(acc, JsString(columnValues[1]), "number"), Tail(columnValues))

Pivot(ds, index, columns, values, aggFunc) ==
    LET indexValues == Distinct(ds.rows, index)
        columnValues == Distinct(ds.rows, columns)
    IN  [name |-> ds.name \o "_pivot",
         schema |-> PivotSchema(<<[k |-> index,
                                   v |-> IF ObjHas(ds.schema, index)
                                         THEN ObjGet(ds.schema, index) ELSE "string"]>>,
                                columnValues),
         rows |-> [r \in 1..Len(indexValues) |->
                     PivotRow(<<[k |-> index, v |-> indexValues[r]]>>, ds.rows, index,
                              columns, values, aggFunc, indexValues[r], columnValues)]]

DoPivot ==
    /\ steps > 0
    /\ \E a \in {[index |-> F_id, columns |-> F_val, values |-> F_val],
                 [index |-> F_val, columns |-> F_id, values |-> F_id]},
          aggFunc \in {"sum", "count"} :
           /\ StringSafe(View(cur, heap).rows, a.columns)
           /\ ReturnsNew("pivot", [index |-> a.index, columns |-> a.columns,
                                   values |-> a.values, aggFunc |-> aggFunc],
                         Pivot(View(cur, heap), a.index, a.columns, a.values, aggFunc))

(***************************************************************************)
(* multiplyScalar, normalize, fillna, shift                                *)
(***************************************************************************)
\* the general case: each listed field in turn, read from the new row
RECURSIVE MultiplyFields(_, _, _)
MultiplyFields(newRow, fields, scalar) ==
    IF fields = <<>> THEN newRow
    ELSE LET val == ToNumber(ObjGet(newRow, fields[1]))
         IN  MultiplyFields(IF ~IsNaN(val) THEN ObjSet(newRow, fields[1], NumMul(val, scalar))
                            ELSE newRow,
                            Tail(fields), scalar)

MultiplyScalar(ds, scalar, fields) ==
    [name |-> ds.name, schema |-> ds.schema,
     rows |-> [i \in 1..Len(ds.rows) |->
                 IF Len(fields) = 1
                 THEN LET val == ToNumber(ObjGet(ds.rows[i], fields[1]))
                      IN  IF ~IsNaN(val)
                          THEN ObjSet(ObjCopy(ds.rows[i]), fields[1], NumMul(val, scalar))
                          ELSE ObjCopy(ds.rows[i])
                 ELSE MultiplyFields(ObjCopy(ds.rows[i]), fields, scalar)]]

\* the optional list of fields is not given (the model passes no empty list)
NoFields == <<>>

\* fields || Object.keys(this.dataset.schema)
FieldsOr(ds, fields) == IF fields = NoFields THEN ObjKeys(ds.schema) ELSE fields

InSeq(x, xs) == \E i \in 1..Len(xs) : xs[i] = x

\* mutant: the value is divided by the maximum, not by the range
NormalizeEntryByMax(rows, e, fields) ==
    LET val == ToNumber(e.v)
    IN  IF InSeq(e.k, fields) /\ ~IsNaN(val)
        THEN LET max == MaxSeq(ValidNumbers(rows, e.k))
             IN  [k |-> e.k, v |-> IF max = Num(0) THEN Num(0) ELSE NumDiv(val, max)]
        ELSE e

\* one entry of a normalized row; min and max are over the field's valid
\* values, of which the entry's own value is one
NormalizeEntry(rows, e, fields) ==
    LET val == ToNumber(e.v)
    IN  IF InSeq(e.k, fields) /\ ~IsNaN(val)
        THEN LET min == MinSeq(ValidNumbers(rows, e.k))
                 max == MaxSeq(ValidNumbers(rows, e.k))
                 range == NumSub(max, min)
             IN  [k |-> e.k,
                  v |-> IF range = Num(0) THEN Num(0) ELSE NumDiv(NumSub(val, min), range)]
        ELSE e

Normalize(ds, fields) ==
    [name |-> ds.name, schema |-> ds.schema,
     rows |-> [i \in 1..Len(ds.rows) |->
                 [k \in 1..Len(ds.rows[i]) |-> NormalizeEntry(ds.rows, ds.rows[i][k], fields)]]]

Fillna(ds, value, fields) ==
    [name |-> ds.name, schema |-> ds.schema,
     rows |-> [i \in 1..Len(ds.rows) |->
                 [k \in 1..Len(ds.rows[i]) |->
                     LET e == ds.rows[i][k]
                     IN  IF InSeq(e.k, fields) /\ e.v \in {Null, Undef, Str(<<>>)}
                         THEN [k |-> e.k, v |-> value]
                         ELSE e]]]

RECURSIVE ShiftFields(_, _, _, _, _, _)
ShiftFields(newRow, rows, idx, periods, fields, fillValue) ==
    IF fields = <<>> THEN newRow
    ELSE LET sourceIdx == idx - periods
         IN  ShiftFields(ObjSet(newRow, fields[1],
                                IF sourceIdx >= 1 /\ sourceIdx <= Len(rows)
                                THEN ObjGet(rows[sourceIdx], fields[1])
                                ELSE fillValue),
                         rows, idx, periods, Tail(fields), fillValue)

Shift(ds, periods, fields, fillValue) ==
    [name |-> ds.name, schema |-> ds.schema,
     rows |-> [i \in 1..Len(ds.rows) |->
                 ShiftFields(ObjCopy(ds.rows[i]), ds.rows, i, periods, fields, fillValue)]]

FieldChoices == {NoFields, <<F_val>>, <<F_id, F_val>>}

DoMultiplyScalar ==
    /\ steps > 0
    /\ \E scalar \in {Num(2), Num(-1)}, fields \in FieldChoices :
           ReturnsNew("multiplyScalar", [scalar |-> scalar, fields |-> fields],
                      MultiplyScalar(View(cur, heap), scalar, FieldsOr(View(cur, heap), fields)))

DoNormalize ==
    /\ steps > 0
    /\ \E fields \in FieldChoices :
           ReturnsNew("normalize", fields,
                      Normalize(View(cur, heap), FieldsOr(View(cur, heap), fields)))

DoFillna ==
    /\ steps > 0
    /\ \E value \in {Num(0), Str(<<"a">>)}, fields \in FieldChoices :
           ReturnsNew("fillna", [value |-> value, fields |-> fields],
                      Fillna(View(cur, heap), value, FieldsOr(View(cur, heap), fields)))

DoShift ==
    /\ steps > 0
    /\ \E periods \in {1, -1}, fields \in FieldChoices :
           ReturnsNew("shift", [periods |-> periods, fields |-> fields],
                      Shift(View(cur, heap), periods, FieldsOr(View(cur, heap), fields), Null))

(***************************************************************************)
(* interpolate: the rows of the result are the receiver's row objects, and *)
(* the filled values are assigned to those objects.                        *)
(***************************************************************************)
\* the field's values, null where the value is null, undefined or not a
\* number
InterpValues(hp, ids, field) ==
    [i \in 1..Len(ids) |->
        LET v == ObjGet(hp[ids[i]], field)
        IN  IF IsNaN(ToNumber(v)) \/ v = Null \/ v = Undef THEN Null ELSE ToNumber(v)]

\* the value assigned at position i, or "none" when nothing is assigned
InterpFill(values, i, method) ==
    LET valid == {j \in 1..Len(values) : values[j] # Null}
        prevs == {j \in valid : j < i}
        nexts == {j \in valid : j > i}
        prevIdx == CHOOSE j \in prevs : \A k \in prevs : k <= j
        nextIdx == CHOOSE j \in nexts : \A k \in nexts : j <= k
        nearest == CHOOSE j \in valid :
                       \A k \in valid : Abs(i - j) < Abs(i - k) \/ (Abs(i - j) = Abs(i - k) /\ j <= k)
    IN  IF method = "linear"
        THEN IF prevs # {} /\ nexts # {}
             THEN NumAdd(values[prevIdx],
                         NumMul(NumDiv(Num(i - prevIdx), Num(nextIdx - prevIdx)),
                                NumSub(values[nextIdx], values[prevIdx])))
             ELSE IF prevs # {} THEN values[prevIdx]
             ELSE IF nexts # {} THEN values[nextIdx]
             ELSE "none"
        ELSE IF valid # {} THEN values[nearest] ELSE "none"

\* the heap after the positions i.. of one field are filled
RECURSIVE InterpRows(_, _, _, _, _, _)
InterpRows(hp, ids, field, values, i, method) ==
    IF i > Len(ids) THEN hp
    ELSE InterpRows(IF values[i] = Null /\ \E j \in 1..Len(values) : values[j] # Null
                    THEN [hp EXCEPT ![ids[i]] = ObjSet(@, field, InterpFill(values, i, method))]
                    ELSE hp,
                    ids, field, values, i + 1, method)

\* the heap after every listed field is interpolated
RECURSIVE Interpolate(_, _, _, _)
Interpolate(hp, ids, fields, method) ==
    IF fields = <<>> THEN hp
    ELSE Interpolate(InterpRows(hp, ids, fields[1], InterpValues(hp, ids, fields[1]), 1, method),
                     ids, Tail(fields), method)

DoInterpolate ==
    /\ steps > 0
    /\ \E fields \in FieldChoices, method \in {"linear", "nearest"} :
           Returns("interpolate", [fields |-> fields, method |-> method],
                   WithRows(cur, cur.rows),
                   Interpolate(heap, cur.rows, FieldsOr(View(cur, heap), fields), method))

(***************************************************************************)
(* Derived columns: rolling, lag, lead, diff, pctChange, cumsum, rank,     *)
(* percentile, binning.                                                    *)
(***************************************************************************)
\* this.pluck(field)
Pluck(rows, field) == [i \in 1..Len(rows) |-> ObjGet(rows[i], field)]

\* this.pluck(field).map(v => Number(v))
PluckNumbers(rows, field) == [i \in 1..Len(rows) |-> ToNumber(ObjGet(rows[i], field))]

\* { ...this.dataset, schema: { ...schema, [newFieldName]: type }, rows }
\* with rows[i] = { ...row, [newFieldName]: column[i] }
WithColumn(ds, newFieldName, type, column) ==
    [name |-> ds.name,
     schema |-> ObjAssign(ObjCopy(ds.schema), <<[k |-> newFieldName, v |-> type]>>),
     rows |-> [i \in 1..Len(ds.rows) |->
                 ObjAssign(ObjCopy(ds.rows[i]), <<[k |-> newFieldName, v |-> column[i]]>>)]]

\* the sum and the count of the valid values at positions from..to
WindowOver(values, from, to) ==
    LET idx == SortedSeq({i \in from..to : ~IsNaN(values[i])})
    IN  [sum |-> SumSeq([i \in 1..Len(idx) |-> values[idx[i]]]), count |-> Len(idx)]

\* the running window after each position: recomputed while the window
\* starts at the first row, otherwise the leaving value is subtracted and
\* the entering value added
RECURSIVE RollingWindows(_, _, _)
RollingWindows(values, windowSize, idx) ==
    IF idx = 0 THEN <<>>
    ELSE LET before == RollingWindows(values, windowSize, idx - 1)
             start == Max2(1, idx - windowSize + 1)
             prev == before[idx - 1]
             removeIdx == idx - windowSize
             removed == IF removeIdx >= 1 /\ ~IsNaN(values[removeIdx])
                        THEN [sum |-> NumSub(prev.sum, values[removeIdx]),
                              count |-> prev.count - 1]
                        ELSE prev
         IN  Append(before,
                    IF idx = 1 \/ start = 1 THEN WindowOver(values, start, idx)
                    ELSE IF ~IsNaN(values[idx])
                         THEN [sum |-> NumAdd(removed.sum, values[idx]),
                               count |-> removed.count + 1]
                         ELSE removed)

RollingValue(values, windowSize, operation, idx) ==
    LET start == Max2(1, idx - windowSize + 1)
        window == RollingWindows(values, windowSize, idx)[idx]
        valid == SortedSeq({i \in start..idx : ~IsNaN(values[i])})
        inWindow == [i \in 1..Len(valid) |-> values[valid[i]]]
    IN  CASE operation = "sum" -> window.sum
          [] operation = "avg" ->
                IF window.count > 0 THEN NumDiv(window.sum, Num(window.count)) ELSE Num(0)
          [] operation = "min" -> IF Len(inWindow) > 0 THEN MinSeq(inWindow) ELSE Num(0)
          [] operation = "max" -> IF Len(inWindow) > 0 THEN MaxSeq(inWindow) ELSE Num(0)

S_rolling == <<"_", "r", "o", "l", "l", "i", "n", "g", "_">>

\* a row of the result holds the keys of the FIRST row, read from its own
\* source row, and the new field
RECURSIVE RollingRow(_, _, _)
RollingRow(acc, originalRow, keys) ==
    IF keys = <<>> THEN acc
    ELSE RollingRow(ObjSet(acc, keys[1], ObjGet(originalRow, keys[1])), originalRow, Tail(keys))

OpName(operation) ==
    CASE operation = "sum" -> <<"s", "u", "m">>
      [] operation = "avg" -> <<"a", "v", "g">>
      [] operation = "min" -> <<"m", "i", "n">>
      [] operation = "max" -> <<"m", "a", "x">>

\* defined on a dataset with at least one row
Rolling(ds, field, windowSize, operation) ==
    LET newFieldName == field \o S_rolling \o OpName(operation)
        values == PluckNumbers(ds.rows, field)
        keys == ObjKeys(ds.rows[1])
    IN  [name |-> ds.name,
         schema |-> ObjAssign(ObjCopy(ds.schema), <<[k |-> newFieldName, v |-> "number"]>>),
         rows |-> [i \in 1..Len(ds.rows) |->
                     ObjSet(RollingRow(<<>>, ds.rows[i], keys), newFieldName,
                            RollingValue(values, windowSize, operation, i))]]

S_lag == <<"_", "l", "a", "g", "_">>

S_lead == <<"_", "l", "e", "a", "d", "_">>

S_diff == <<"_", "d", "i", "f", "f", "_">>

S_pct_change == <<"_", "p", "c", "t", "_", "c", "h", "a", "n", "g", "e", "_">>

S_cumsum == <<"_", "c", "u", "m", "s", "u", "m">>

S_rank == <<"_", "r", "a", "n", "k">>

S_percentile == <<"_", "p", "e", "r", "c", "e", "n", "t", "i", "l", "e">>

S_binned == <<"_", "b", "i", "n", "n", "e", "d">>

S_bin == <<"b", "i", "n", "_">>

S_unknown == <<"u", "n", "k", "n", "o", "w", "n">>

\* values[i] of a JavaScript array: undefined outside the array
At(values, i) == IF i >= 1 /\ i <= Len(values) THEN values[i] ELSE Undef

Lag(ds, field, periods) ==
    LET values == Pluck(ds.rows, field)
    IN  WithColumn(ds, field \o S_lag \o JsString(Num(periods)), "number",
                   [idx \in 1..Len(ds.rows) |->
                       IF idx - periods >= 1 THEN At(values, idx - periods) ELSE Null])

Lead(ds, field, periods) ==
    LET values == Pluck(ds.rows, field)
    IN  WithColumn(ds, field \o S_lead \o JsString(Num(periods)), "number",
                   [idx \in 1..Len(ds.rows) |->
                       IF idx + periods <= Len(values) THEN At(values, idx + periods) ELSE Null])

Diff(ds, field, periods) ==
    LET values == PluckNumbers(ds.rows, field)
    IN  WithColumn(ds, field \o S_diff \o JsString(Num(periods)), "number",
                   [idx \in 1..Len(ds.rows) |->
                       LET prev == ToNumber(At(values, idx - periods))
                       IN  IF idx - periods >= 1 /\ ~IsNaN(values[idx]) /\ ~IsNaN(prev)
                           THEN NumSub(values[idx], prev)
                           ELSE Null])

PctChange(ds, field, periods) ==
    LET values == PluckNumbers(ds.rows, field)
    IN  WithColumn(ds, field \o S_pct_change \o JsString(Num(periods)), "number",
                   [idx \in 1..Len(ds.rows) |->
                       LET prev == ToNumber(At(values, idx - periods))
                       IN  IF /\ idx - periods >= 1
                              /\ ~IsNaN(values[idx])
                              /\ ~IsNaN(prev)
                              /\ prev # Num(0)
                           THEN NumMul(NumDiv(NumSub(values[idx], prev), prev), Num(100))
                           ELSE Null])

Cumsum(ds, field) ==
    LET values == PluckNumbers(ds.rows, field)
    IN  WithColumn(ds, field \o S_cumsum, "number",
                   [idx \in 1..Len(ds.rows) |-> WindowOver(values, 1, idx).sum])

\* values.sort((a, b) => b.value - a.value): a difference that is NaN reads
\* as "equal", so the comparator is a consistent ordering only when no value
\* is NaN or all the others are equal
RankConsistent(values) ==
    \/ \A i \in 1..Len(values) : ~IsNaN(values[i])
    \/ \A i, j \in 1..Len(values) :
           (~IsNaN(values[i]) /\ ~IsNaN(values[j])) => values[i] = values[j]

\* the orders the sort may leave the positions in: the stable descending
\* order under a consistent comparator, any order otherwise
RankOrders(values) ==
    IF RankConsistent(values)
    THEN {p \in Perms(Len(values)) :
             \A i, j \in 1..Len(values) :
                 i < j => \/ NumLT(values[p[j]], values[p[i]])
                          \/ (~NumLT(values[p[i]], values[p[j]]) /\ p[i] < p[j])}
    ELSE Perms(Len(values))

\* the ranks assigned to the first i positions of the sorted order, as a
\* function from row position to rank (the counter's increment after the
\* last position is never read)
RECURSIVE Ranks(_, _, _, _)
Ranks(values, sorted, method, i) ==
    IF i = 0 THEN <<>>
    ELSE LET ranks == Ranks(values, sorted, method, i - 1)
             prevRank == ranks[sorted[i - 1]]
             currentRank ==
                 IF i = 1 THEN 1
                 ELSE IF method = "dense" THEN prevRank + 1
                 ELSE i
         IN  IF i > 1 /\ StrictEq(values[sorted[i]], values[sorted[i - 1]])
             THEN (sorted[i] :> prevRank) @@ ranks
             ELSE (sorted[i] :> currentRank) @@ ranks

Rank(ds, field, method, sorted) ==
    LET values == PluckNumbers(ds.rows, field)
        ranks == Ranks(values, sorted, method, Len(values))
    IN  WithColumn(ds, field \o S_rank, "number",
                   [idx \in 1..Len(ds.rows) |-> Num(ranks[idx])])

\* [...values].sort((a, b) => a - b) of valid numbers
RECURSIVE SortAscending(_)
SortAscending(values) ==
    IF values = <<>> THEN <<>>
    ELSE LET rest == SortAscending(SubSeq(values, 1, Len(values) - 1))
             x == values[Len(values)]
             p == Cardinality({i \in 1..Len(rest) : NumLE(rest[i], x)})
         IN  SubSeq(rest, 1, p) \o <<x>> \o SubSeq(rest, p + 1, Len(rest))

\* sorted.findIndex(v => v >= value), counted from 0; -1 when there is none
FindIndexGE(sorted, value) ==
    LET hits == {i \in 1..Len(sorted) : NumLE(value, sorted[i])}
    IN  IF hits = {} THEN -1 ELSE (CHOOSE i \in hits : \A j \in hits : i <= j) - 1

Percentile(ds, field) ==
    LET sorted == SortAscending(ValidNumbers(ds.rows, field))
    IN  WithColumn(ds, field \o S_percentile, "number",
                   [idx \in 1..Len(ds.rows) |->
                       LET value == ToNumber(ObjGet(ds.rows[idx], field))
                           position == FindIndexGE(sorted, value)
                       IN  IF IsNaN(value) THEN Null
                           ELSE IF position >= 0
                                THEN NumMul(NumDiv(Num(position), Num(Len(sorted))), Num(100))
                                ELSE Num(100)])

\* the bin edges.  bins is [count |-> n] or [edges |-> list].  With no valid
\* value min is Infinity and max -Infinity, and with a count of 0 the step is
\* infinite or NaN: every edge is then NaN.
BinEdges(values, bins) ==
    IF "edges" \in DOMAIN bins THEN bins.edges
    ELSE IF Len(values) = 0 \/ bins.count = 0
         THEN [i \in 1..(bins.count + 1) |-> NaN]
         ELSE LET min == MinSeq(values)
                  step == NumDiv(NumSub(MaxSeq(values), min), Num(bins.count))
              IN  [i \in 1..(bins.count + 1) |-> NumAdd(min, NumMul(Num(i - 1), step))]

\* the first bin (from 0) whose edges enclose the value, -1 when none does
BinIndex(edges, value) ==
    LET hits == {i \in 1..(Len(edges) - 1) :
                    NumLE(edges[i], value) /\ NumLE(value, edges[i + 1])}
    IN  IF IsNaN(value) \/ hits = {} THEN -1
        ELSE (CHOOSE i \in hits : \A j \in hits : i <= j) - 1

\* labels?.[binIndex] || `bin_${binIndex}`; no labels is the empty list
BinLabel(labels, binIndex) ==
    IF binIndex + 1 <= Len(labels) /\ labels[binIndex + 1] # <<>>
    THEN labels[binIndex + 1]
    ELSE S_bin \o JsString(Num(binIndex))

Binning(ds, field, bins, labels) ==
    LET edges == BinEdges(ValidNumbers(ds.rows, field), bins)
    IN  WithColumn(ds, field \o S_binned, "string",
                   [idx \in 1..Len(ds.rows) |->
                       LET binIndex == BinIndex(edges, ToNumber(ObjGet(ds.rows[idx], field)))
                       IN  Str(IF binIndex >= 0 THEN BinLabel(labels, binIndex)
                               ELSE S_unknown)])

RollingOps == {"sum", "avg", "min", "max"}

DerivedFields == {F_val, F_id}

\* Object.keys(undefined) throws on a dataset without rows
DoRolling ==
    /\ steps > 0
    /\ \E field \in DerivedFields, windowSize \in 1..2, operation \in RollingOps :
           IF Len(cur.rows) = 0
           THEN Throws("rolling", [field |-> field, windowSize |-> windowSize,
                                   operation |-> operation])
           ELSE ReturnsNew("rolling", [field |-> field, windowSize |-> windowSize,
                                       operation |-> operation],
                           Rolling(View(cur, heap), field, windowSize, operation))

DoLag ==
    /\ steps > 0
    /\ \E field \in DerivedFields, periods \in 1..2 :
           ReturnsNew("lag", [field |-> field, periods |-> periods],
                      Lag(View(cur, heap), field, periods))

DoLead ==
    /\ steps > 0
    /\ \E field \in DerivedFields, periods \in 1..2 :
           ReturnsNew("lead", [field |-> field, periods |-> periods],
                      Lead(View(cur, heap), field, periods))

DoDiff ==
    /\ steps > 0
    /\ \E field \in DerivedFields, periods \in 1..2 :
           ReturnsNew("diff", [field |-> field, periods |-> periods],
                      Diff(View(cur, heap), field, periods))

DoPctChange ==
    /\ steps > 0
    /\ \E field \in DerivedFields, periods \in 1..2 :
           ReturnsNew("pctChange", [field |-> field, periods |-> periods],
                      PctChange(View(cur, heap), field, periods))

DoCumsum ==
    /\ steps > 0
    /\ \E field \in DerivedFields :
           ReturnsNew("cumsum", [field |-> field], Cumsum(View(cur, heap), field))

DoRank ==
    /\ steps > 0
    /\ \E field \in DerivedFields, method \in {"dense", "min", "max"} :
           \E sorted \in RankOrders(PluckNumbers(View(cur, heap).rows, field)) :
               ReturnsNew("rank", [field |-> field, method |-> method, sorted |-> sorted],
                          Rank(View(cur, heap), field, method, sorted))

DoPercentile ==
    /\ steps > 0
    /\ \E field \in DerivedFields :
           ReturnsNew("percentile", [field |-> field], Percentile(View(cur, heap), field))

BinChoices ==
    {[count |-> 1], [count |-> 2], [count |-> 3], [edges |-> <<Num(0), Num(2), Num(4)>>]}

\* no labels, two labels, and a list whose first label is the empty string
LabelChoices == {<<>>, <<<<"l", "o">>, <<"h", "i">>>>, <<<<>>, <<"h", "i">>>>}

DoBinning ==
    /\ steps > 0
    /\ \E field \in DerivedFields, bins \in BinChoices, labels \in LabelChoices :
           ReturnsNew("binning", [field |-> field, bins |-> bins, labels |-> labels],
                      Binning(View(cur, heap), field, bins, labels))

(***************************************************************************)
(* covariance                                                              *)
(***************************************************************************)
\* values1.reduce((sum, v1, i) => sum + (v1 - mean1) * (values2[i] - mean2), 0)
RECURSIVE CrossDeviations(_, _, _, _, _)
CrossDeviations(values1, values2, mean1, mean2, n) ==
    IF n = 0 THEN Num(0)
    ELSE NumAdd(CrossDeviations(values1, values2, mean1, mean2, n - 1),
                NumMul(NumSub(values1[n], mean1), NumSub(values2[n], mean2)))

\* each field's valid values are collected on their own and then paired by
\* their position in the two lists
Covariance(rows, field1, field2) ==
    LET values1 == ValidNumbers(rows, field1)
        values2 == ValidNumbers(rows, field2)
        mean1 == NumDiv(SumSeq(values1), Num(Len(values1)))
        mean2 == NumDiv(SumSeq(values2), Num(Len(values2)))
    IN  IF Len(values1) # Len(values2) \/ Len(values1) = 0 THEN Num(0)
        ELSE NumDiv(CrossDeviations(values1, values2, mean1, mean2, Len(values1)),
                    Num(Len(values1)))

DoCovariance ==
    /\ steps > 0
    /\ \E field1 \in {F_id, F_val}, field2 \in {F_id, F_val} :
           Answers("covariance", [field1 |-> field1, field2 |-> field2],
                   Covariance(View(cur, heap).rows, field1, field2))

(***************************************************************************)
(* addMatrix                                                               *)
(***************************************************************************)
\* the keys of the first row that are not added, then those that are
CopyKeys(keys, fieldsToAdd) == SelectSeq(keys, LAMBDA k : ~InSeq(k, fieldsToAdd))

AddKeys(keys, fieldsToAdd) == SelectSeq(keys, LAMBDA k : InSeq(k, fieldsToAdd))

\* newRow[key] = (!isNaN(val1) && !isNaN(val2)) ? val1 + val2 : row[key]
AddEntry(row, otherRow, key) ==
    LET val1 == ToNumber(ObjGet(row, key))
        val2 == ToNumber(ObjGet(otherRow, key))
    IN  IF ~IsNaN(val1) /\ ~IsNaN(val2) THEN NumAdd(val1, val2) ELSE ObjGet(row, key)

RECURSIVE AddMatrixRow(_, _, _, _, _)
AddMatrixRow(acc, row, otherRow, copyKeys, addKeys) ==
    IF copyKeys # <<>>
    THEN AddMatrixRow(ObjSet(acc, copyKeys[1], ObjGet(row, copyKeys[1])),
                      row, otherRow, Tail(copyKeys), addKeys)
    ELSE IF addKeys # <<>>
    THEN AddMatrixRow(ObjSet(acc, addKeys[1], AddEntry(row, otherRow, addKeys[1])),
                      row, otherRow, copyKeys, Tail(addKeys))
    ELSE acc

\* defined when the two datasets have the same number of rows
AddMatrix(ds, otherRows, fieldsToAdd) ==
    LET keys == IF Len(ds.rows) > 0 THEN ObjKeys(ds.rows[1]) ELSE <<>>
    IN  [name |-> ds.name,
         schema |-> ds.schema,
         rows |-> [i \in 1..Len(ds.rows) |->
                     AddMatrixRow(<<>>, ds.rows[i], otherRows[i],
                                  CopyKeys(keys, fieldsToAdd), AddKeys(keys, fieldsToAdd))]]

\* mutant: raises only when the receiver has more rows than other
DoAddMatrixRaisesWhenLonger ==
    /\ steps > 0
    /\ \E fields \in FieldChoices :
           IF Len(cur.rows) > Len(other.rows)
           THEN Throws("addMatrix", [fields |-> fields])
           ELSE ReturnsNew("addMatrix", [fields |-> fields],
                           AddMatrix(View(cur, heap), View(other, heap).rows,
                                     FieldsOr(View(cur, heap), fields)))

DoAddMatrix ==
    /\ steps > 0
    /\ \E fields \in FieldChoices :
           IF Len(cur.rows) # Len(other.rows)
           THEN Throws("addMatrix", [fields |-> fields])
           ELSE ReturnsNew("addMatrix", [fields |-> fields],
                           AddMatrix(View(cur, heap), View(other, heap).rows,
                                     FieldsOr(View(cur, heap), fields)))

(***************************************************************************)
(* fromMatrix (static)                                                     *)
(***************************************************************************)
S_col == <<"c", "o", "l", "_">>

S_undefined == <<"u", "n", "d", "e", "f", "i", "n", "e", "d">>

\* fields[c] as a property name (c from 0): fieldNames when given, else
\* col_0, col_1, ...; past the end of the list the name is "undefined"
MatrixField(fieldNames, c) ==
    IF fieldNames = NoFields THEN S_col \o IntToStr(c)
    ELSE IF c + 1 <= Len(fieldNames) THEN fieldNames[c + 1]
    ELSE S_undefined

RECURSIVE MatrixSchema(_, _)
MatrixSchema(fieldNames, cols) ==
    IF cols = 0 THEN <<>>
    ELSE ObjSet(MatrixSchema(fieldNames, cols - 1), MatrixField(fieldNames, cols - 1), "number")

RECURSIVE MatrixRow(_, _, _)
MatrixRow(matrixRow, fieldNames, cols) ==
    IF cols = 0 THEN <<>>
    ELSE ObjSet(MatrixRow(matrixRow, fieldNames, cols - 1),
                MatrixField(fieldNames, cols - 1), At(matrixRow, cols))

\* defined on a matrix with at least one row
FromMatrix(matrix, fieldNames) ==
    LET cols == Len(matrix[1])
    IN  [name |-> "matrix_dataset",
         schema |-> MatrixSchema(fieldNames, cols),
         rows |-> [r \in 1..Len(matrix) |-> MatrixRow(matrix[r], fieldNames, cols)]]

Matrices ==
    {<<>>, << <<>> >>, << <<Num(1), Num(2)>> >>,
     << <<Num(1), Num(2)>>, <<Num(3)>> >>, << <<Num(1)>>, <<Num(2), Num(3)>> >>}

FieldNameChoices == {NoFields, <<F_id, F_val>>, <<F_id>>}

DoFromMatrix ==
    /\ steps > 0
    /\ \E matrix \in Matrices, fieldNames \in FieldNameChoices :
           IF Len(matrix) = 0
           THEN Throws("fromMatrix", [matrix |-> matrix, fieldNames |-> fieldNames])
           ELSE ReturnsNew("fromMatrix", [matrix |-> matrix, fieldNames |-> fieldNames],
                           FromMatrix(matrix, fieldNames))

(***************************************************************************)
(* standardize                                                             *)
(***************************************************************************)
RECURSIVE Pow4(_)
Pow4(k) == IF k <= 0 THEN 1 ELSE 4 * Pow4(k - 1)

\* The binary exponent e of the square root of the positive fraction a/dd:
\* 4^(Precision-1) <= a / (dd * 4^e) < 4^Precision.
RECURSIVE SqrtExponent(_, _, _)
SqrtExponent(a, dd, e) ==
    LET up == a * Pow4(-e)
        dn == dd * Pow4(e)
    IN  IF up >= Pow4(Precision) * dn THEN SqrtExponent(a, dd, e + 1)
        ELSE IF up < Pow4(Precision - 1) * dn THEN SqrtExponent(a, dd, e - 1)
        ELSE e

\* Math.sqrt(x): the floating point number nearest to the square root, NaN
\* for a negative number
Sqrt(x) ==
    IF IsNaN(x) \/ x.n < 0 THEN NaN
    ELSE IF x.n = 0 THEN Num(0)
    ELSE LET e == SqrtExponent(x.n, x.d, 0)
             up == x.n * Pow4(-e)
             dn == x.d * Pow4(e)
             \* q - 1/2 <= sqrt(up/dn) <= q + 1/2, the even q on a tie
             near == {q \in Pow2(Precision - 1)..Pow2(Precision) :
                         /\ (2 * q - 1) * (2 * q - 1) * dn <= 4 * up
                         /\ 4 * up <= (2 * q + 1) * (2 * q + 1) * dn}
             q == IF Cardinality(near) = 1 THEN CHOOSE c \in near : TRUE
                  ELSE CHOOSE c \in near : c % 2 = 0
         IN  Rat(q * Pow2(e), Pow2(-e))

\* values.reduce((sum, v) => sum + Math.pow(v - mean, 2), 0)
RECURSIVE SumSquares(_, _)
SumSquares(values, mean) ==
    IF values = <<>> THEN Num(0)
    ELSE LET dev == NumSub(values[Len(values)], mean)
         IN  NumAdd(SumSquares(SubSeq(values, 1, Len(values) - 1), mean), NumMul(dev, dev))

\* { mean, stdDev } of a field; the variance of no values is 0 / 0
FieldStats(rows, field) ==
    LET values == ValidNumbers(rows, field)
        mean == Stats(rows, field).avg
        variance == IF Len(values) = 0 THEN NaN
                    ELSE NumDiv(SumSquares(values, mean), Num(Len(values)))
    IN  [mean |-> mean, stdDev |-> Sqrt(variance)]

RECURSIVE StandardizeFields(_, _, _, _)
StandardizeFields(newRow, rows, row, fields) ==
    IF fields = <<>> THEN newRow
    ELSE LET value == ToNumber(ObjGet(row, fields[1]))
             st == FieldStats(rows, fields[1])
         IN  StandardizeFields(
                 IF ~IsNaN(value)
                 THEN ObjSet(newRow, fields[1],
                             IF st.stdDev = Num(0) THEN Num(0)
                             ELSE NumDiv(NumSub(value, st.mean), st.stdDev))
                 ELSE newRow,
                 rows, row, Tail(fields))

Standardize(ds, fields) ==
    [name |-> ds.name, schema |-> ds.schema,
     rows |-> [i \in 1..Len(ds.rows) |->
                 StandardizeFields(ObjCopy(ds.rows[i]), ds.rows, ds.rows[i], fields)]]

DoStandardize ==
    /\ steps > 0
    /\ \E fields \in FieldChoices :
           ReturnsNew("standardize", [fields |-> fields],
                      Standardize(View(cur, heap), FieldsOr(View(cur, heap), fields)))

(***************************************************************************)
(* unique                                                                  *)
(***************************************************************************)
\* JSON.stringify of a value: NaN and null are both written null
JsonValue(v) == IF IsNaN(v) \/ v = Null THEN Null ELSE v

\* JSON.stringify(row): the properties in stored order, one whose value is
\* undefined left out
JsonStringify(row) ==
    LET kept == SelectSeq(row, LAMBDA e : e.v # Undef)
    IN  [i \in 1..Len(kept) |-> [k |-> kept[i].k, v |-> JsonValue(kept[i].v)]]

\* the positions whose key was not seen at an earlier position
Unique(rows) ==
    SortedSeq({i \in 1..Len(rows) :
                  \A j \in 1..(i - 1) : JsonStringify(rows[j]) # JsonStringify(rows[i])})

DoUnique ==
    /\ steps > 0
    /\ LET idx == Unique(View(cur, heap).rows)
       IN  Returns("unique", <<>>,
                   WithRows(cur, [i \in 1..Len(idx) |-> cur.rows[idx[i]]]), heap)

(***************************************************************************)
(* reverse                                                                 *)
(***************************************************************************)
\* mutant: the copy of the rows is returned in the order it was made
ReverseKeepsOrder(rows) == [i \in 1..Len(rows) |-> rows[i]]

\* [...rows].reverse(): a new array of the same row objects
Reverse(rows) == [i \in 1..Len(rows) |-> rows[Len(rows) + 1 - i]]

DoReverse ==
    /\ steps > 0
    /\ Returns("reverse", <<>>, WithRows(cur, Reverse(cur.rows)), heap)

(***************************************************************************)
(* sample.  The call is a loop that draws random indices until it holds    *)
(* sampleSize distinct ones; while it runs, last is the record of the call *)
(* in progress (op "sampling") and last.out the set of indices drawn.      *)
(***************************************************************************)
\* Math.floor of a number that is not negative
Floor(x) == IF IsNaN(x) THEN NaN ELSE Num(x.n \div x.d)

\* Math.min(a, b)
NumMin(a, b) == IF IsNaN(a) \/ IsNaN(b) THEN NaN ELSE IF NumLT(b, a) THEN b ELSE a

SampleSize(count, n, frac) ==
    IF frac # Undef THEN Floor(NumMul(Num(count), frac))
    ELSE IF n # Undef THEN NumMin(n, Num(count))
    ELSE Num(1)

\* indices.size < sampleSize
SampleRuns(call) == NumLT(Num(Cardinality(call.out)), call.arg.sampleSize)

\* Math.floor(Math.random() * totalRows): any index of a row, 0 when there
\* is no row
RandomIndices(totalRows) == IF totalRows = 0 THEN {0} ELSE 0..(totalRows - 1)

SampleNs == {Undef, Num(0), Num(1), Num(2), Num(5)}

SampleFracs == {Undef, Num(0), Rat(1, 2), Num(1), Num(2)}

SampleSeeds == {Undef, Num(7)}

SampleCall ==
    /\ steps > 0
    /\ last.op # "sampling"
    /\ \E n \in SampleNs, frac \in SampleFracs, seed \in SampleSeeds :
           last' = Call("sampling",
                        [n |-> n, frac |-> frac, seed |-> seed, retry |-> FALSE,
                         sampleSize |-> SampleSize(Len(cur.rows), n, frac)],
                        {}, FALSE)
    /\ UNCHANGED <<heap, d, snap, cur, other, steps>>

SamplePick(randomIndex) ==
    /\ last.op = "sampling"
    /\ SampleRuns(last)
    /\ randomIndex \in RandomIndices(Len(cur.rows))
    /\ last' = [last EXCEPT !.out = @ \cup {randomIndex}]
    /\ UNCHANGED <<heap, d, snap, cur, other, steps>>

\* Array.from(indices).sort((a, b) => a - b).map(idx => rows[idx]); an index
\* without a row gives the value undefined, held in the heap as a row that
\* is no object
SampleReturn ==
    /\ last.op = "sampling"
    /\ ~SampleRuns(last)
    /\ LET idx == SortedSeq(last.out)
           missing == {i \in 1..Len(idx) : idx[i] + 1 > Len(cur.rows)}
       IN  Returns("sample", last.arg,
                   WithRows(cur, [i \in 1..Len(idx) |->
                                     IF i \in missing THEN Len(heap) + 1
                                     ELSE cur.rows[idx[i] + 1]]),
                   IF missing = {} THEN heap ELSE Append(heap, Undef))

\* the caller keeps the result in other and makes the same call, with the
\* same arguments, on the same handle again
SampleRetry ==
    /\ steps > 0
    /\ last.op = "sample"
    /\ ~last.arg.retry
    /\ other' = cur
    /\ cur' = [name |-> last.src.name, schema |-> last.src.schema, rows |-> last.ids]
    /\ last' = [op |-> "sampling", src |-> last.src, ids |-> last.ids,
                oth |-> View(cur, heap), arg |-> [last.arg EXCEPT !.retry = TRUE],
                out |-> {}, threw |-> FALSE]
    /\ UNCHANGED <<heap, d, snap, steps>>

(***************************************************************************)
(* Initial states: the caller builds d and other from rows it owns.        *)
(***************************************************************************)
Row2(k1, v1, k2, v2) == <<[k |-> k1, v |-> v1], [k |-> k2, v |-> v2]>>

Schema2(k1, t1, k2, t2) == <<[k |-> k1, v |-> t1], [k |-> k2, v |-> t2]>>

SeqsUpTo(pool, n) == UNION {[1..m -> pool] : m \in 0..n}

Build(rowsD, schemaD, rowsO, schemaO, fuel) ==
    /\ heap = rowsD \o rowsO
    /\ d = [name |-> "d", schema |-> schemaD, rows |-> [i \in 1..Len(rowsD) |-> i]]
    /\ other = [name |-> "o", schema |-> schemaO,
                rows |-> [i \in 1..Len(rowsO) |-> Len(rowsD) + i]]
    /\ cur = d
    /\ snap = View(d, heap)
    /\ last = [op |-> "init", src |-> snap, ids |-> d.rows,
               oth |-> View(other, heap), arg |-> <<>>, out |-> <<>>,
               threw |-> FALSE]
    /\ steps = fuel

SchemaD == Schema2(F_id, "number", F_val, "number")

SchemaO == Schema2(F_uid, "number", F_val, "number")

MixedVals == {Num(1), Num(2), NaN, Null, Str(<<"a">>)}

MixedRows == {Row2(F_id, Num(i), F_val, v) : i \in 1..2, v \in MixedVals}

InitFilter ==
    \E rowsD \in SeqsUpTo(MixedRows, MaxRows) :
        Build(rowsD, SchemaD, <<>>, SchemaO, 1)

NextFilter == DoFilter

SpecFilter == InitFilter /\ [][NextFilter]_vars

\* C4: filter(p) keeps the source's schema and returns exactly the source
\* rows for which p is true, in their original relative order; with an
\* always-true p the row count is the source's, with an always-false p it
\* is zero.
FilterKeepsMatchingRowsInOrder ==
    last.op = "filter" =>
        LET src == last.src.rows
            res == View(cur, heap).rows
            keep == last.arg
            kept == {i \in 1..Len(src) : keep[i]}
        IN  /\ cur.schema = last.src.schema
            /\ Len(res) = Cardinality(kept)
            /\ \E f \in [1..Len(res) -> 1..Len(src)] :
                   /\ \A i \in 1..Len(res) : f[i] \in kept /\ res[i] = src[f[i]]
                   /\ \A i, j \in 1..Len(res) : i < j => f[i] < f[j]
            /\ ((\A i \in 1..Len(src) : keep[i]) => Len(res) = Len(src))
            /\ ((\A i \in 1..Len(src) : ~keep[i]) => Len(res) = 0)

FilterWitness ==
    /\ last.op = "filter"
    /\ Len(last.src.rows) = 3
    /\ Len(View(cur, heap).rows) = 2
    /\ last.arg[2] = FALSE

SortVals == {Num(1), Num(2), NaN, Str(<<"1">>)}

SortRows == {Row2(F_id, Num(i), F_val, v) : i \in 1..2, v \in SortVals}

InitSortBy ==
    \E rowsD \in SeqsUpTo(SortRows, MaxRows) :
        Build(rowsD, SchemaD, <<>>, SchemaO, 1)

NextSortBy == DoSortBy

SpecSortBy == InitSortBy /\ [][NextSortBy]_vars

\* the order of two values of one field as the claim reads it: two numbers
\* numerically, any other pair by string order
ClaimFieldOrder(aVal, bVal, order) ==
    LET c == IF TypeOf(aVal) = "num" /\ TypeOf(bVal) = "num"
             THEN IF NumLT(aVal, bVal) THEN -1
                  ELSE IF NumLT(bVal, aVal) THEN 1 ELSE 0
             ELSE IF StrLT(JsString(aVal), JsString(bVal)) THEN -1
                  ELSE IF StrLT(JsString(bVal), JsString(aVal)) THEN 1 ELSE 0
    IN  IF order = "asc" THEN c ELSE -c

\* the first listed field that orders the two rows decides; a tie on a
\* field passes to the next listed field
RECURSIVE ClaimRowOrder(_, _, _)
ClaimRowOrder(a, b, fields) ==
    IF fields = <<>> THEN 0
    ELSE LET c == ClaimFieldOrder(ObjGet(a, fields[1].field),
                                  ObjGet(b, fields[1].field), fields[1].order)
         IN  IF c # 0 THEN c ELSE ClaimRowOrder(a, b, Tail(fields))

\* C5: sortBy returns a permutation of the source rows ordered by the first
\* listed field on which two rows differ, a tie on one field being broken by
\* the next listed field, and rows tied on every listed field keeping their
\* relative source order.
SortByOrdersByFieldsStably ==
    last.op = "sortBy" =>
        \E p \in Perms(Len(last.ids)) :
            /\ cur.rows = [i \in 1..Len(last.ids) |-> last.ids[p[i]]]
            /\ \A i, j \in 1..Len(last.ids) : i < j =>
                  LET c == ClaimRowOrder(last.src.rows[p[i]], last.src.rows[p[j]], last.arg)
                  IN  c < 0 \/ (c = 0 /\ p[i] < p[j])

KeyVals == {Num(1), Str(<<"1">>), NaN}

LeftRows == {Row2(F_id, k, F_val, Num(v)) : k \in KeyVals, v \in 1..2}

RightRows == {Row2(F_uid, k, F_val, Num(v)) : k \in {Num(1), NaN}, v \in {1, 3}}

InitJoin ==
    \E rowsD \in SeqsUpTo(LeftRows, MaxRows - 1), rowsO \in SeqsUpTo(RightRows, MaxRows - 1) :
        Build(rowsD, SchemaD, rowsO, SchemaO, 1)

NextJoin == DoJoin \/ DoMerge

SpecJoin == InitJoin /\ [][NextJoin]_vars

\* number of positions of seq that hold x
Count(seq, x) == Cardinality({i \in 1..Len(seq) : seq[i] = x})

Range(seq) == {seq[i] : i \in 1..Len(seq)}

\* C6: an inner join emits, for each left row in order, one combined row per
\* right row whose rightKey value is exactly equal (no coercion) to the left
\* row's leftKey value; a left join also emits each left row without a match
\* once, alone; a right join is the mirror image over the right rows.
JoinEmitsMatchingPairs ==
    last.op = "join" =>
        LET L == last.src.rows
            R == last.oth.rows
            a == last.arg
            res == View(cur, heap).rows
            eq(i, j) == LET x == ObjGet(L[i], a.leftKey)
                            y == ObjGet(R[j], a.rightKey)
                        IN  x = y /\ ~IsNaN(x)
            nL == Len(L)
            nR == Len(R)
            pairs == {p \in (1..nL) \X (1..nR) : eq(p[1], p[2])}
            loneL == {i \in 1..nL : \A j \in 1..nR : ~eq(i, j)}
            loneR == {j \in 1..nR : \A i \in 1..nL : ~eq(i, j)}
            \* (outer position, inner position or 0 for "alone"), in emission order
            items == IF a.type = "right"
                     THEN SortedSeq({p[2] * (nL + 1) + p[1] : p \in pairs}
                                    \cup {j * (nL + 1) : j \in loneR})
                     ELSE SortedSeq({p[1] * (nR + 1) + p[2] : p \in pairs}
                                    \cup (IF a.type = "left"
                                          THEN {i * (nR + 1) : i \in loneL}
                                          ELSE {}))
            outer(x) == IF a.type = "right" THEN x \div (nL + 1) ELSE x \div (nR + 1)
            inner(x) == IF a.type = "right" THEN x % (nL + 1) ELSE x % (nR + 1)
            combined(x) ==
                IF a.type = "right"
                THEN IF inner(x) = 0 THEN R[outer(x)]
                     ELSE ObjAssign(L[inner(x)], R[outer(x)])
                ELSE IF inner(x) = 0 THEN L[outer(x)]
                     ELSE ObjAssign(L[outer(x)], R[inner(x)])
        IN  /\ Len(res) = Len(items)
            /\ \A k \in 1..Len(res) : res[k] = combined(items[k])
            /\ (a.type = "inner" =>
                   Len(res) = Cardinality(pairs))

JoinWitness ==
    /\ last.op = "join"
    /\ last.arg.type = "left"
    /\ Len(last.src.rows) = 2
    /\ Len(View(cur, heap).rows) = 3
    /\ \E k \in 1..3 : View(cur, heap).rows[k] = last.src.rows[2]

GroupVals == {Num(2), Num(1), Str(<<"b">>), Str(<<"a">>), Null}

GroupRows == {Row2(F_id, k, F_val, Num(v)) : k \in GroupVals, v \in 1..2}

InitGroupBy ==
    \E rowsD \in SeqsUpTo(GroupRows, MaxRows) :
        Build(rowsD, SchemaD, <<>>, SchemaO, 1)

NextGroupBy == DoGroupBy

SpecGroupBy == InitGroupBy /\ [][NextGroupBy]_vars

\* C8: groupBy(field) maps the string form of each distinct value of the
\* field, enumerated in the order in which the values first appear (also
\* for numeric values), to all and only the rows with that key in their
\* original relative order.
GroupByKeysInFirstSeenOrder ==
    last.op = "groupBy" =>
        LET rows == last.src.rows
            key(i) == JsString(ObjGet(rows[i], last.arg))
            firsts == SortedSeq({i \in 1..Len(rows) : \A j \in 1..(i - 1) : key(j) # key(i)})
            groups == last.out
        IN  /\ Len(groups) = Len(firsts)
            /\ \A g \in 1..Len(groups) :
                  /\ groups[g].k = key(firsts[g])
                  /\ groups[g].v = SortedSeq({i \in 1..Len(rows) : key(i) = groups[g].k})

AggVals == {Num(1), Str(<<"2">>), NaN, Null, Str(<<"a">>)}

AggRows == {Row2(F_id, Num(i), F_val, v) : i \in 1..2, v \in AggVals}

InitAggregate ==
    \E rowsD \in SeqsUpTo(AggRows, MaxRows) :
        Build(rowsD, SchemaD, <<>>, SchemaO, 1)

NextAggregate == DoAggregate \/ DoStats

SpecAggregate == InitAggregate /\ [][NextAggregate]_vars

\* the field's value in row i as a number, and whether it is valid: numeric
\* coercion does not fail
NumberAt(rows, i, f) == ToNumber(ObjGet(rows[i], f))

ValidAt(rows, i, f) == ~IsNaN(NumberAt(rows, i, f))

RECURSIVE SumOver(_, _, _)
SumOver(rows, S, f) ==
    IF S = {} THEN Num(0)
    ELSE LET i == CHOOSE x \in S : TRUE
         IN  NumAdd(NumberAt(rows, i, f), SumOver(rows, S \ {i}, f))

\* x is op over the valid values of f among the rows at positions G
IsAggregateOf(x, op, rows, G, f) ==
    LET V == {i \in G : ValidAt(rows, i, f)}
    IN  CASE op = "count" -> x = Num(Cardinality(G))
          [] op = "sum" -> x = SumOver(rows, V, f)
          [] op = "avg" ->
                IF V = {} THEN x = Num(0)
                ELSE x.t = "num" /\ NumMul(x, Num(Cardinality(V))) = SumOver(rows, V, f)
          [] op = "min" ->
                IF V = {} THEN x = Null
                ELSE /\ \E i \in V : x = NumberAt(rows, i, f)
                     /\ \A i \in V : NumLE(x, NumberAt(rows, i, f))
          [] op = "max" ->
                IF V = {} THEN x = Null
                ELSE /\ \E i \in V : x = NumberAt(rows, i, f)
                     /\ \A i \in V : NumLE(NumberAt(rows, i, f), x)

\* C9: aggregate returns one row per group; sum, avg, min and max are taken
\* over the valid numeric values of the requested field among the group's
\* rows, count is the number of rows of the group, and a group without a
\* valid value has avg 0 and min and max null.
AggregateOverValidValues ==
    last.op = "aggregate" =>
        LET rows == last.src.rows
            gf == last.arg.groupField
            aggs == last.arg.aggregations
            res == View(cur, heap).rows
            key(i) == JsString(ObjGet(rows[i], gf))
            keys == {key(i) : i \in 1..Len(rows)}
        IN  /\ Len(res) = Cardinality(keys)
            /\ \A k \in keys :
                  Cardinality({r \in 1..Len(res) : ObjGet(res[r], gf) = Str(k)}) = 1
            /\ \A r \in 1..Len(res) :
                  LET G == {i \in 1..Len(rows) : Str(key(i)) = ObjGet(res[r], gf)}
                  IN  \A a \in 1..Len(aggs) :
                          IsAggregateOf(ObjGet(res[r], aggs[a].k), aggs[a].v.op,
                                        rows, G, aggs[a].v.field)

AggregateWitness ==
    /\ last.op = "aggregate"
    /\ last.arg.groupField = F_id
    /\ Len(last.arg.aggregations) = 2
    /\ last.arg.aggregations[1].v.op = "avg"
    /\ Len(last.src.rows) = 3
    /\ Len(View(cur, heap).rows) = 2
    /\ ObjGet(View(cur, heap).rows[1], A_a) = Rat(3, 2)
    /\ ObjGet(View(cur, heap).rows[2], A_a) = Num(0)
    /\ ~ValidAt(last.src.rows, 3, F_val)

StatsEmptyWitness ==
    /\ last.op = "stats"
    /\ Len(last.src.rows) = 0
    /\ last.out.count = Num(0)

(***************************************************************************)
(* Chains of operations on one handle d and the handles derived from it.   *)
(***************************************************************************)
ChainRows == {Row2(F_id, Num(1), F_val, Num(1)), Row2(F_id, Num(2), F_val, Null)}

ChainOther == <<Row2(F_uid, Num(2), F_val, Num(5))>>

Init ==
    \E rowsD \in SeqsUpTo(ChainRows, MaxRows - 1) :
        Build(rowsD, SchemaD, ChainOther, SchemaO, MaxSteps)

Next ==
    \/ DoFilter
    \/ DoSort
    \/ DoSortBy
    \/ DoClone
    \/ DoSelect
    \/ DoExclude
    \/ DoRename
    \/ DoAddField
    \/ DoJoin
    \/ DoMerge
    \/ DoMelt
    \/ DoPivot
    \/ DoAggregate
    \/ DoGroupBy
    \/ DoStats
    \/ DoCovariance
    \/ DoAddMatrix
    \/ DoFromMatrix
    \/ DoStandardize
    \/ DoUnique
    \/ DoReverse
    \/ DoMultiplyScalar
    \/ DoNormalize
    \/ DoFillna
    \/ DoShift
    \/ DoInterpolate
    \/ DoRolling
    \/ DoLag
    \/ DoLead
    \/ DoDiff
    \/ DoPctChange
    \/ DoCumsum
    \/ DoRank
    \/ DoPercentile
    \/ DoBinning

Spec == Init /\ [][Next]_vars

\* C1: whatever operations are called on d, on a clone of d or on a handle
\* derived from them, the name, the schema and the rows read through d are
\* those read before the calls, and a clone holds the row content of its
\* source.
OperationsLeaveHandleUnchanged ==
    /\ View(d, heap) = snap
    /\ (last.op = "clone" => View(cur, heap) = last.src)

\* the operations that start from consistent handles and are to keep them so
NextSchema ==
    \/ DoSelect
    \/ DoExclude
    \/ DoRename
    \/ DoAddField
    \/ DoJoin
    \/ DoMerge
    \/ DoMelt
    \/ DoPivot
    \/ DoAggregate
    \/ DoRolling
    \/ DoLag
    \/ DoLead
    \/ DoDiff
    \/ DoPctChange
    \/ DoCumsum
    \/ DoRank
    \/ DoPercentile
    \/ DoBinning

SpecSchema == Init /\ [][NextSchema]_vars

\* C2: after any chain of select, exclude, rename, addField, join, merge,
\* melt, pivot, aggregate and the derived-column operations, the names of the
\* schema are unique and every field name of every row is a name of the
\* schema.
SchemaAndDataConsistent ==
    LET v == View(cur, heap)
    IN  /\ \A i, j \in 1..Len(v.schema) : v.schema[i].k = v.schema[j].k => i = j
        /\ \A r \in 1..Len(v.rows) : KeySet(v.rows[r]) \subseteq KeySet(v.schema)

DerivedOps ==
    {"rolling", "lag", "lead", "diff", "pctChange", "cumsum", "rank", "percentile", "binning"}

\* C3: a derived-column operation on a non-empty dataset returns as many
\* rows as its source has; row i of the result has every field of source row
\* i with the same value, and exactly one field more.
DerivedKeepsRowsAndAddsOneField ==
    (last.op \in DerivedOps /\ ~last.threw /\ Len(last.src.rows) > 0) =>
        LET src == last.src.rows
            res == View(cur, heap).rows
        IN  /\ Len(res) = Len(src)
            /\ \A i \in 1..Len(src) :
                  \E name \in KeySet(res[i]) :
                      /\ KeySet(res[i]) = KeySet(src[i]) \cup {name}
                      /\ \A k \in KeySet(src[i]) \ {name} :
                            ObjGet(res[i], k) = ObjGet(src[i], k)

(***************************************************************************)
(* normalize                                                               *)
(***************************************************************************)
NormVals == {Num(1), Num(3), Str(<<"2">>), NaN, Null, Str(<<"a">>)}

NormRows == {Row2(F_id, Num(i), F_val, v) : i \in 1..2, v \in NormVals}

InitNormalize ==
    \E rowsD \in SeqsUpTo(NormRows, MaxRows) :
        Build(rowsD, SchemaD, <<>>, SchemaO, 1)

NextNormalize == DoNormalize

SpecNormalize == InitNormalize /\ [][NextNormalize]_vars

\* C11: normalize maps each valid value v of a selected field to
\* (v - min) / (max - min), min and max over the field's valid values: every
\* result is in [0, 1], the minimum maps to 0 and the maximum to 1; when all
\* valid values are equal every valid entry becomes 0; a missing entry stays
\* as it is, and a field that is not selected keeps its values.
NormalizeMapsToUnitInterval ==
    last.op = "normalize" =>
        LET src == last.src.rows
            res == View(cur, heap).rows
            fields == FieldsOr(last.src, last.arg)
            V(f) == {i \in 1..Len(src) : ValidAt(src, i, f)}
            isMin(i, f) == \A j \in V(f) : NumLE(NumberAt(src, i, f), NumberAt(src, j, f))
            isMax(i, f) == \A j \in V(f) : NumLE(NumberAt(src, j, f), NumberAt(src, i, f))
        IN  /\ ~last.threw
            /\ View(cur, heap).schema = last.src.schema
            /\ View(cur, heap).name = last.src.name
            /\ Len(res) = Len(src)
            /\ \A i \in 1..Len(src) :
                  /\ ObjKeys(res[i]) = ObjKeys(src[i])
                  /\ \A f \in KeySet(src[i]) :
                        IF InSeq(f, fields) /\ ValidAt(src, i, f)
                        THEN LET lo == CHOOSE j \in V(f) : isMin(j, f)
                                 hi == CHOOSE j \in V(f) : isMax(j, f)
                                 min == NumberAt(src, lo, f)
                                 max == NumberAt(src, hi, f)
                                 out == ObjGet(res[i], f)
                             IN  /\ out = IF min = max THEN Num(0)
                                          ELSE NumDiv(NumSub(NumberAt(src, i, f), min),
                                                      NumSub(max, min))
                                 /\ NumLE(Num(0), out) /\ NumLE(out, Num(1))
                                 /\ (isMin(i, f) => out = Num(0))
                                 /\ ((isMax(i, f) /\ min # max) => out = Num(1))
                        ELSE ObjGet(res[i], f) = ObjGet(src[i], f)

\* a column with a missing entry between two different valid values
NormalizeWitness ==
    /\ last.op = "normalize"
    /\ last.arg = <<F_val>>
    /\ Len(last.src.rows) = 3
    /\ ObjGet(last.src.rows[2], F_val) = NaN
    /\ ObjGet(last.src.rows[1], F_val) = Num(3)
    /\ ObjGet(View(cur, heap).rows[1], F_val) = Num(1)
    /\ ObjGet(View(cur, heap).rows[2], F_val) = NaN
    /\ ObjGet(View(cur, heap).rows[3], F_val) = Num(0)

(***************************************************************************)
(* covariance                                                              *)
(***************************************************************************)
CovRows == {Row2(F_id, a, F_val, b) : a \in {Num(1), Num(3), NaN}, b \in {Num(2), Num(4), NaN}}

InitCovariance ==
    \E rowsD \in SeqsUpTo(CovRows, MaxRows) :
        Build(rowsD, SchemaD, <<>>, SchemaO, 1)

NextCovariance == DoCovariance

SpecCovariance == InitCovariance /\ [][NextCovariance]_vars

\* the sum over the rows at positions S of (f1 - m1) * (f2 - m2)
RECURSIVE CrossSumOver(_, _, _, _, _, _)
CrossSumOver(rows, S, f1, f2, m1, m2) ==
    IF S = {} THEN Num(0)
    ELSE LET i == CHOOSE x \in S : TRUE
         IN  NumAdd(NumMul(NumSub(NumberAt(rows, i, f1), m1), NumSub(NumberAt(rows, i, f2), m2)),
                    CrossSumOver(rows, S \ {i}, f1, f2, m1, m2))

\* C12: covariance(f1, f2) is the sum, over exactly the rows in which both
\* fields are valid, of (f1 - mean1) * (f2 - mean2) divided by the number of
\* those rows, both means taken over those rows; it is 0 when there is no
\* such row.
CovarianceIsPairwiseComplete ==
    last.op = "covariance" =>
        LET rows == last.src.rows
            f1 == last.arg.field1
            f2 == last.arg.field2
            P == {i \in 1..Len(rows) : ValidAt(rows, i, f1) /\ ValidAt(rows, i, f2)}
            n == Num(Cardinality(P))
            m1 == NumDiv(SumOver(rows, P, f1), n)
            m2 == NumDiv(SumOver(rows, P, f2), n)
        IN  last.out = IF P = {} THEN Num(0)
                       ELSE NumDiv(CrossSumOver(rows, P, f1, f2, m1, m2), n)

(***************************************************************************)
(* rolling: the windows over a column with missing values and with values  *)
(* of very different magnitude.                                            *)
(***************************************************************************)
\* a number so large that adding 1 to it is lost in the rounding
Huge == Num(Pow2(Precision))

RollVals == {Num(0), Num(1), Num(3), Huge, NaN}

RollRows == {Row2(F_id, Num(1), F_val, v) : v \in RollVals}

InitRolling ==
    \E rowsD \in SeqsUpTo(RollRows, MaxRows) : Build(rowsD, SchemaD, <<>>, SchemaO, 1)

NextRolling == DoRolling

SpecRolling == InitRolling /\ [][NextRolling]_vars

\* the sum, from 0 and in row order, of the valid values at positions from..to
RECURSIVE FreshSum(_, _, _, _)
FreshSum(rows, f, from, to) ==
    IF to < from THEN Num(0)
    ELSE IF ValidAt(rows, to, f)
         THEN NumAdd(FreshSum(rows, f, from, to - 1), NumberAt(rows, to, f))
         ELSE FreshSum(rows, f, from, to - 1)

\* C13: on a non-empty dataset rolling(field, w, op) gives row i the value op
\* over the valid values at the positions max(first, i-w+1)..i: the sum is
\* the sum a fresh pass over that window computes, the average that sum over
\* the number of valid values in the window, the minimum and the maximum
\* those of the valid values; a missing value is skipped and the window
\* keeps its extent.
RollingIsOpOverWindow ==
    (last.op = "rolling" /\ ~last.threw) =>
        LET src == last.src.rows
            res == View(cur, heap).rows
            f == last.arg.field
            w == last.arg.windowSize
            op == last.arg.operation
            newField == f \o S_rolling \o OpName(op)
        IN  /\ Len(res) = Len(src)
            /\ \A i \in 1..Len(src) :
                  LET start == Max2(1, i - w + 1)
                      V == {j \in start..i : ValidAt(src, j, f)}
                      out == ObjGet(res[i], newField)
                      sum == FreshSum(src, f, start, i)
                  IN  CASE op = "sum" -> out = sum
                        [] op = "avg" -> V # {} => out = NumDiv(sum, Num(Cardinality(V)))
                        [] op = "min" ->
                              V # {} => /\ \E j \in V : out = NumberAt(src, j, f)
                                        /\ \A j \in V : NumLE(out, NumberAt(src, j, f))
                        [] op = "max" ->
                              V # {} => /\ \E j \in V : out = NumberAt(src, j, f)
                                        /\ \A j \in V : NumLE(NumberAt(src, j, f), out)

(***************************************************************************)
(* lag, lead, diff and pctChange over a column with missing values and a   *)
(* zero.                                                                   *)
(***************************************************************************)
SeriesVals == {Num(0), Num(2), Num(3), NaN, Str(<<"a">>)}

SeriesRows == {Row2(F_id, Num(1), F_val, v) : v \in SeriesVals}

InitSeries ==
    \E rowsD \in SeqsUpTo(SeriesRows, MaxRows) : Build(rowsD, SchemaD, <<>>, SchemaO, 1)

NextSeries == DoLag \/ DoLead \/ DoDiff \/ DoPctChange

SpecSeries == InitSeries /\ [][NextSeries]_vars

\* C14: lag(field, p) gives row i the field's value of row i-p and
\* lead(field, p) the value of row i+p; where that row does not exist the
\* derived value is the missing marker of numeric columns, NaN, and nothing
\* else.
LagLeadShiftOrMissing ==
    (last.op \in {"lag", "lead"}) =>
        LET src == last.src.rows
            res == View(cur, heap).rows
            f == last.arg.field
            p == last.arg.periods
            newField == f \o (IF last.op = "lag" THEN S_lag ELSE S_lead) \o IntToStr(p)
            from(i) == IF last.op = "lag" THEN i - p ELSE i + p
        IN  /\ ~last.threw
            /\ Len(res) = Len(src)
            /\ \A i \in 1..Len(src) :
                  IF from(i) \in 1..Len(src)
                  THEN ObjGet(res[i], newField) = ObjGet(src[from(i)], f)
                  ELSE IsNaN(ObjGet(res[i], newField))

\* C15: diff(field, p) gives row i value[i] - value[i-p] and pctChange
\* (value[i] - value[i-p]) / value[i-p] x 100; the derived value is the
\* missing marker NaN when row i-p does not exist, when either operand is
\* missing, and for pctChange when value[i-p] is zero; no call raises.
DiffPctChangeOrMissing ==
    (last.op \in {"diff", "pctChange"}) =>
        LET src == last.src.rows
            res == View(cur, heap).rows
            f == last.arg.field
            p == last.arg.periods
            newField == f \o (IF last.op = "diff" THEN S_diff ELSE S_pct_change) \o IntToStr(p)
        IN  /\ ~last.threw
            /\ Len(res) = Len(src)
            /\ \A i \in 1..Len(src) :
                  LET out == ObjGet(res[i], newField)
                      defined == /\ i - p >= 1
                                 /\ ValidAt(src, i, f)
                                 /\ ValidAt(src, i - p, f)
                                 /\ (last.op = "pctChange" => NumberAt(src, i - p, f) # Num(0))
                      delta == NumSub(NumberAt(src, i, f), NumberAt(src, i - p, f))
                  IN  IF ~defined THEN IsNaN(out)
                      ELSE IF last.op = "diff" THEN out = delta
                      ELSE out = NumMul(NumDiv(delta, NumberAt(src, i - p, f)), Num(100))

(***************************************************************************)
(* rank over a column with ties and missing values.                        *)
(***************************************************************************)
RankVals == {Num(1), Num(2), Num(3), Str(<<"2">>), NaN}

RankRows == {Row2(F_id, Num(1), F_val, v) : v \in RankVals}

InitRank ==
    \E rowsD \in SeqsUpTo(RankRows, MaxRows) : Build(rowsD, SchemaD, <<>>, SchemaO, 1)

NextRank == DoRank

SpecRank == InitRank /\ [][NextRank]_vars

\* the valid values of f that are greater than, or equal to, that of row i
GreaterValues(rows, i, f) ==
    {NumberAt(rows, j, f) : j \in {k \in 1..Len(rows) :
                                      NumLT(NumberAt(rows, i, f), NumberAt(rows, k, f))}}

RowsGreater(rows, i, f) ==
    {j \in 1..Len(rows) : NumLT(NumberAt(rows, i, f), NumberAt(rows, j, f))}

RowsGreaterOrEqual(rows, i, f) ==
    {j \in 1..Len(rows) : NumLE(NumberAt(rows, i, f), NumberAt(rows, j, f))}

\* C16: rank(field) with method 'dense' ranks descending: a row holding the
\* largest value has rank 1, rows with equal values have equal ranks and
\* each next smaller distinct value has the previous rank plus 1; that is,
\* the rank of a row is 1 plus the number of distinct values greater than
\* its own, and the ranks in use are 1..k for k distinct values.
DenseRankCountsDistinctGreater ==
    (last.op = "rank" /\ last.arg.method = "dense") =>
        LET src == last.src.rows
            res == View(cur, heap).rows
            f == last.arg.field
        IN  /\ ~last.threw
            /\ Len(res) = Len(src)
            /\ \A i \in 1..Len(src) :
                  ValidAt(src, i, f) =>
                      ObjGet(res[i], f \o S_rank)
                          = Num(1 + Cardinality(GreaterValues(src, i, f)))

\* C17: rank(field, 'min') gives every row of a group of tied values the
\* 1-based position, in the descending order, of the first row of the
\* group, and rank(field, 'max') the position of the last row of the group,
\* so the two differ on every group of two or more rows.
MinMaxRankGroupEnds ==
    (last.op = "rank" /\ last.arg.method \in {"min", "max"}) =>
        LET src == last.src.rows
            res == View(cur, heap).rows
            f == last.arg.field
        IN  /\ ~last.threw
            /\ Len(res) = Len(src)
            /\ \A i \in 1..Len(src) :
                  ValidAt(src, i, f) =>
                      ObjGet(res[i], f \o S_rank)
                          = IF last.arg.method = "min"
                            THEN Num(1 + Cardinality(RowsGreater(src, i, f)))
                            ELSE Num(Cardinality(RowsGreaterOrEqual(src, i, f)))

(***************************************************************************)
(* percentile over a column with ties and missing values.                  *)
(***************************************************************************)
InitPercentile ==
    \E rowsD \in SeqsUpTo(RankRows, MaxRows) : Build(rowsD, SchemaD, <<>>, SchemaO, 1)

NextPercentile == DoPercentile

SpecPercentile == InitPercentile /\ [][NextPercentile]_vars

\* C18: percentile(field) gives a row holding a valid value v the number of
\* valid values strictly less than v, over the number of valid values, times
\* 100: the smallest value gets 0, tied values get equal results and every
\* result is in [0, 100); a row whose value is missing gets the missing
\* marker NaN.
PercentileCountsStrictlyLess ==
    last.op = "percentile" =>
        LET src == last.src.rows
            res == View(cur, heap).rows
            f == last.arg.field
            V == {j \in 1..Len(src) : ValidAt(src, j, f)}
            less(i) == {j \in V : NumLT(NumberAt(src, j, f), NumberAt(src, i, f))}
        IN  /\ ~last.threw
            /\ Len(res) = Len(src)
            /\ \A i \in 1..Len(src) :
                  LET out == ObjGet(res[i], f \o S_percentile)
                  IN  IF ValidAt(src, i, f)
                      THEN /\ out = NumMul(NumDiv(Num(Cardinality(less(i))),
                                                  Num(Cardinality(V))), Num(100))
                           /\ NumLE(Num(0), out)
                           /\ NumLT(out, Num(100))
                      ELSE IsNaN(out)

(***************************************************************************)
(* binning over a column with values on an edge, outside the edges and     *)
(* missing.                                                                *)
(***************************************************************************)
BinVals == {Num(0), Num(1), Num(2), Num(4), Num(5), NaN}

BinRows == {Row2(F_id, Num(1), F_val, v) : v \in BinVals}

InitBinning ==
    \E rowsD \in SeqsUpTo(BinRows, MaxRows) : Build(rowsD, SchemaD, <<>>, SchemaO, 1)

NextBinning == DoBinning

SpecBinning == InitBinning /\ [][NextBinning]_vars

\* C19: binning(field, bins, labels) gives a valid value v the first index i
\* with edge[i] <= v <= edge[i+1], so a value on an interior edge goes to the
\* lower bin, and the label labels[i], or the positional default bin_i when
\* no label i is supplied; a missing value or one outside all edges is
\* labelled "unknown"; with an integer bins the edges are
\* min + i x (max - min) / bins for i = 0..bins over the valid values,
\* otherwise the given list.
BinningFirstEnclosingBin ==
    last.op = "binning" =>
        LET src == last.src.rows
            res == View(cur, heap).rows
            f == last.arg.field
            bins == last.arg.bins
            labels == last.arg.labels
            V == {j \in 1..Len(src) : ValidAt(src, j, f)}
            lo == NumberAt(src, CHOOSE j \in V : \A k \in V :
                                   NumLE(NumberAt(src, j, f), NumberAt(src, k, f)), f)
            hi == NumberAt(src, CHOOSE j \in V : \A k \in V :
                                   NumLE(NumberAt(src, k, f), NumberAt(src, j, f)), f)
            nBins == IF "edges" \in DOMAIN bins THEN Len(bins.edges) - 1 ELSE bins.count
            \* edge(i), i = 0..nBins
            edge(i) == IF "edges" \in DOMAIN bins THEN bins.edges[i + 1]
                       ELSE NumAdd(lo, NumMul(Num(i), NumDiv(NumSub(hi, lo), Num(bins.count))))
            encloses(i, v) == NumLE(edge(i), v) /\ NumLE(v, edge(i + 1))
        IN  /\ ~last.threw
            /\ Len(res) = Len(src)
            /\ \A r \in 1..Len(src) :
                  LET v == NumberAt(src, r, f)
                      out == ObjGet(res[r], f \o S_binned)
                      hits == {i \in 0..(nBins - 1) : encloses(i, v)}
                  IN  IF ~ValidAt(src, r, f) \/ hits = {}
                      THEN out = Str(S_unknown)
                      ELSE LET i == CHOOSE x \in hits : \A y \in hits : x <= y
                           IN  out = Str(IF i + 1 <= Len(labels) THEN labels[i + 1]
                                         ELSE S_bin \o IntToStr(i))

(***************************************************************************)
(* addMatrix of two datasets with the same fields.                         *)
(***************************************************************************)
AddVals == {Num(1), Str(<<"2">>), NaN}

AddRows == {Row2(F_id, Num(1), F_val, v) : v \in AddVals}

InitAddMatrix ==
    \E rowsD \in SeqsUpTo(AddRows, MaxRows), rowsO \in SeqsUpTo(AddRows, MaxRows) :
        Build(rowsD, SchemaD, rowsO, SchemaD, 1)

NextAddMatrix == DoAddMatrix

SpecAddMatrix == InitAddMatrix /\ [][NextAddMatrix]_vars

\* C20: addMatrix is commutative: for datasets A and B with equal row counts
\* and the same fields, A.addMatrix(B, fields) and B.addMatrix(A, fields)
\* hold equal values in every selected field of every row.
AddMatrixCommutes ==
    (last.op = "addMatrix" /\ ~last.threw) =>
        LET A == last.src
            B == last.oth
            fields == FieldsOr(A, last.arg.fields)
            AB == View(cur, heap).rows
            BA == AddMatrix(B, A.rows, FieldsOr(B, last.arg.fields)).rows
        IN  /\ Len(AB) = Len(BA)
            /\ \A i \in 1..Len(AB) :
                  \A k \in 1..Len(fields) :
                      ObjGet(AB[i], fields[k]) = ObjGet(BA[i], fields[k])

(***************************************************************************)
(* multiplyScalar and addMatrix over rows that need not all hold the same  *)
(* fields (a left join returns such rows).                                 *)
(***************************************************************************)
MatrixRows ==
    {Row2(F_id, Num(1), F_val, v) : v \in {Num(3), Str(<<"a">>)}}
        \cup {<<[k |-> F_id, v |-> Num(2)]>>}

InitMatrix ==
    \E rowsD \in SeqsUpTo(MatrixRows, MaxRows), rowsO \in SeqsUpTo(MatrixRows, MaxRows) :
        Build(rowsD, SchemaD, rowsO, SchemaD, 1)

NextMatrix == DoMultiplyScalar \/ DoAddMatrix

SpecMatrix == InitMatrix /\ [][NextMatrix]_vars

\* C21: multiplyScalar(k, fields) and addMatrix(other, fields) return a
\* dataset with the source's schema and row count in which, in every row, a
\* field not listed keeps its source value, a listed field whose value (on
\* either side, for addMatrix) is not a number keeps its source value, and
\* every other listed field holds v x k, respectively v + w for the value w
\* of the same row of other.
ScalarAndMatrixFrame ==
    (last.op \in {"multiplyScalar", "addMatrix"} /\ ~last.threw) =>
        LET src == last.src.rows
            oth == last.oth.rows
            res == View(cur, heap).rows
            fields == FieldsOr(last.src, last.arg.fields)
        IN  /\ View(cur, heap).schema = last.src.schema
            /\ Len(res) = Len(src)
            /\ \A i \in 1..Len(src) :
                  \A f \in KeySet(src[i]) :
                      LET v == NumberAt(src, i, f)
                          w == IF last.op = "addMatrix" THEN NumberAt(oth, i, f) ELSE Num(0)
                          out == ObjGet(res[i], f)
                      IN  IF ~InSeq(f, fields) \/ IsNaN(v) \/ IsNaN(w)
                          THEN out = ObjGet(src[i], f)
                          ELSE IF last.op = "addMatrix" THEN out = NumAdd(v, w)
                          ELSE out = NumMul(v, last.arg.scalar)

(***************************************************************************)
(* The two hard errors: addMatrix on unequal row counts, fromMatrix on a   *)
(* matrix without rows.                                                    *)
(***************************************************************************)
InitErrors ==
    \E rowsD \in SeqsUpTo(AddRows, MaxRows), rowsO \in SeqsUpTo(AddRows, MaxRows) :
        Build(rowsD, SchemaD, rowsO, SchemaD, 1)

NextErrors == DoAddMatrix \/ DoFromMatrix

SpecErrors == InitErrors /\ [][NextErrors]_vars

\* C22: addMatrix raises exactly when the two datasets have different row
\* counts (two empty datasets do not raise) and fromMatrix exactly when the
\* matrix has no rows; a call that raises produces no result handle and
\* leaves the operand handles as they were, a call that does not raise
\* returns a new handle.
HardErrorsRaiseAndLeaveOperands ==
    (last.op \in {"addMatrix", "fromMatrix"}) =>
        /\ last.op = "addMatrix" => (last.threw <=> Len(last.src.rows) # Len(last.oth.rows))
        /\ last.op = "fromMatrix" => (last.threw <=> Len(last.arg.matrix) = 0)
        /\ View(d, heap) = snap
        /\ View(other, heap) = last.oth
        /\ IF last.threw
           THEN cur = d /\ Len(heap) = Len(d.rows) + Len(other.rows)
           ELSE /\ \A i \in 1..Len(cur.rows) : cur.rows[i] > Len(d.rows) + Len(other.rows)
                /\ last.op = "addMatrix" => Len(cur.rows) = Len(last.src.rows)
                /\ last.op = "fromMatrix" => Len(cur.rows) = Len(last.arg.matrix)

HardErrorsWitness ==
    /\ last.op = "addMatrix"
    /\ last.threw
    /\ Len(last.src.rows) = 1
    /\ Len(last.oth.rows) = 2
    /\ cur = d

(***************************************************************************)
(* The numeric and time-series operations on a dataset without rows.       *)
(***************************************************************************)
EmptyRows == {Row2(F_id, Num(1), F_val, v) : v \in {Num(3), NaN}}

InitEmpty ==
    \E rowsD \in SeqsUpTo(EmptyRows, 1), rowsO \in SeqsUpTo(EmptyRows, 1),
       schemaD \in {SchemaD, <<>>} :
        Build(rowsD, schemaD, rowsO, SchemaD, 1)

NextEmpty ==
    \/ DoMultiplyScalar
    \/ DoNormalize
    \/ DoStandardize
    \/ DoAddMatrix
    \/ DoRolling
    \/ DoLag
    \/ DoLead
    \/ DoDiff
    \/ DoPctChange
    \/ DoCumsum
    \/ DoRank
    \/ DoPercentile
    \/ DoBinning
    \/ DoStats

SpecEmpty == InitEmpty /\ [][NextEmpty]_vars

NumericOps ==
    {"multiplyScalar", "normalize", "standardize", "addMatrix", "rolling", "lag", "lead",
     "diff", "pctChange", "cumsum", "rank", "percentile", "binning"}

\* C23: on a dataset with zero rows no numeric or time-series operation
\* raises: multiplyScalar, normalize, standardize, addMatrix (with another
\* empty dataset), rolling, lag, lead, diff, pctChange, cumsum, rank,
\* percentile and binning each return a dataset with zero rows, and stats of
\* any field returns sum 0 and count 0.
EmptyDatasetNeverRaises ==
    (Len(last.src.rows) = 0) =>
        /\ (last.op \in NumericOps /\ (last.op = "addMatrix" => Len(last.oth.rows) = 0)) =>
              (~last.threw /\ Len(cur.rows) = 0)
        /\ last.op = "stats" =>
              (~last.threw /\ last.out.sum = Num(0) /\ last.out.count = Num(0))

(***************************************************************************)
(* select and exclude.                                                     *)
(***************************************************************************)
SelectRows == {Row2(F_id, Num(i), F_val, v) : i \in 1..2, v \in {Num(3), Str(<<"a">>), NaN}}

InitSelect ==
    \E rowsD \in SeqsUpTo(SelectRows, MaxRows) : Build(rowsD, SchemaD, <<>>, SchemaO, 1)

NextSelect == DoSelect \/ DoExclude

SpecSelect == InitSelect /\ [][NextSelect]_vars

\* the names of keys that satisfy keep, in the order of keys
KeptInOrder(keys, names, keep) ==
    SelectSeq(keys, LAMBDA k : InSeq(k, names) = keep)

\* C24: select(fields) never raises on a name that is not in the schema and
\* leaves it out; the result's schema lists the retained fields in the
\* relative order of the source schema, whatever the order of the arguments,
\* and every retained field keeps its value in every row; exclude(fields)
\* keeps the remaining fields in source order.
SelectKeepsSourceOrder ==
    (last.op \in {"select", "exclude"}) =>
        LET src == last.src
            res == View(cur, heap)
            keep == (last.op = "select")
        IN  /\ ~last.threw
            /\ ObjKeys(res.schema) = KeptInOrder(ObjKeys(src.schema), last.arg, keep)
            /\ \A k \in KeySet(res.schema) : ObjGet(res.schema, k) = ObjGet(src.schema, k)
            /\ Len(res.rows) = Len(src.rows)
            /\ \A i \in 1..Len(src.rows) :
                  /\ KeySet(res.rows[i])
                        = {k \in KeySet(src.rows[i]) :
                              InSeq(k, last.arg) = keep /\ ObjHas(src.schema, k)}
                  /\ \A k \in KeySet(res.rows[i]) :
                        ObjGet(res.rows[i], k) = ObjGet(src.rows[i], k)

(***************************************************************************)
(* unique over rows that hold the same values in a different field order,  *)
(* and rows that differ only in NaN against null.                          *)
(***************************************************************************)
UniqueRows ==
    {Row2(F_id, Num(1), F_val, v) : v \in {Num(1), Str(<<"1">>), NaN, Null}}
        \cup {Row2(F_val, Num(1), F_id, Num(1))}

InitUnique ==
    \E rowsD \in SeqsUpTo(UniqueRows, MaxRows) : Build(rowsD, SchemaD, <<>>, SchemaO, 1)

NextUnique == DoUnique

SpecUnique == InitUnique /\ [][NextUnique]_vars

\* the two rows hold the same fields with the same values
SameRow(r1, r2) ==
    /\ KeySet(r1) = KeySet(r2)
    /\ \A k \in KeySet(r1) : ObjGet(r1, k) = ObjGet(r2, k)

\* C25: unique() returns, in source order, exactly the rows for which no
\* earlier row holds the same value in every field, whatever the order in
\* which the fields are stored: the first row of each group of identical
\* rows is kept and the later ones are removed; unique().unique() equals
\* unique().
UniqueKeepsFirstOccurrences ==
    last.op = "unique" =>
        LET src == last.src.rows
            firsts == SortedSeq({i \in 1..Len(src) :
                                    \A j \in 1..(i - 1) : ~SameRow(src[j], src[i])})
            res == View(cur, heap).rows
        IN  /\ ~last.threw
            /\ cur.rows = [i \in 1..Len(firsts) |-> last.ids[firsts[i]]]
            /\ Unique(res) = [i \in 1..Len(res) |-> i]

(***************************************************************************)
(* Two derived-column operations in a row: the names of the new columns.   *)
(***************************************************************************)
NamingRows == {Row2(F_id, Num(1), F_val, v) : v \in {Num(1), Num(3)}}

InitNaming ==
    \E rowsD \in SeqsUpTo(NamingRows, MaxRows - 1) :
        Build(rowsD, SchemaD, <<>>, SchemaO, MaxSteps)

NextNaming == DoRolling \/ DoLag \/ DoLead \/ DoDiff \/ DoPctChange

SpecNaming == InitNaming /\ [][NextNaming]_vars

ParameterOps == {"rolling", "lag", "lead", "diff", "pctChange"}

\* the window size of a rolling call, the shift amount of the others
ParameterOf(call) ==
    IF call.op = "rolling" THEN call.arg.windowSize ELSE call.arg.periods

\* the second call repeats the transform of the first on the same field
SameTransform(c1, c2) ==
    /\ c1.op \in ParameterOps
    /\ c2.op = c1.op
    /\ ~c1.threw
    /\ ~c2.threw
    /\ c2.arg.field = c1.arg.field
    /\ (c1.op = "rolling" => c2.arg.operation = c1.arg.operation)

\* C26: a derived-column operation names its column from the source field
\* and a suffix that encodes the transform and its parameter (the window
\* size for rolling, the shift amount for lag, lead, diff and pctChange):
\* the same operation on the same field with a different parameter adds a
\* differently named column, and with the same parameter it overwrites the
\* earlier column without adding a field to the schema.
DerivedNameEncodesParameter ==
    [][SameTransform(last, last') =>
          IF ParameterOf(last') # ParameterOf(last)
          THEN /\ Len(cur'.schema) = Len(cur.schema) + 1
               /\ \A i \in 1..Len(cur'.rows) : Len(heap'[cur'.rows[i]]) = Len(cur.schema) + 1
          ELSE /\ ObjKeys(cur'.schema) = ObjKeys(cur.schema)
               /\ \A i \in 1..Len(cur'.rows) : Len(heap'[cur'.rows[i]]) = Len(cur.schema)]_vars

(***************************************************************************)
(* sample: the same call made twice, and the rows a call returns           *)
(***************************************************************************)
InitSample ==
    \E m \in 0..MaxRows :
        Build([i \in 1..m |-> Row2(F_id, Num(i), F_val, Num(1))], SchemaD,
              <<>>, SchemaO, MaxSteps)

NextSample ==
    \/ SampleCall
    \/ \E randomIndex \in 0..MaxRows : SamplePick(randomIndex)
    \/ SampleReturn
    \/ SampleRetry

SpecSample == InitSample /\ [][NextSample]_vars

\* the random draw reaches every index, and a loop that can go on or end
\* does so
FairSpecSample ==
    /\ SpecSample
    /\ WF_vars(SampleReturn)
    /\ \A randomIndex \in 0..MaxRows : WF_vars(SamplePick(randomIndex))

\* C27: two invocations on handles with equal content and with equal
\* arguments return equal results: when sample has been called a second
\* time on the same handle with the same n, frac and seed, the dataset it
\* returns equals the dataset the first call returned.
SampleIsDeterministic ==
    (last.op = "sample" /\ last.arg.retry) => View(cur, heap) = last.oth

\* sample(n) with n >= 0, or sample(undefined, frac) with 0 <= frac <= 1
SampleInDomain(arg) ==
    \/ arg.frac = Undef /\ arg.n # Undef /\ NumLE(Num(0), arg.n)
    \/ arg.n = Undef /\ arg.frac # Undef
           /\ NumLE(Num(0), arg.frac) /\ NumLE(arg.frac, Num(1))

\* the number of rows the arguments ask for from c rows
SampleAsked(c, arg) ==
    IF arg.frac = Undef
    THEN IF arg.n.n < c * arg.n.d THEN arg.n.n \div arg.n.d ELSE c
    ELSE (c * arg.frac.n) \div arg.frac.d

\* ids lists, in order, pairwise-distinct members of src
IsSubsequence(ids, src) ==
    \E f \in [1..Len(ids) -> 1..Len(src)] :
        /\ \A i \in 1..Len(ids) : ids[i] = src[f[i]]
        /\ \A i, j \in 1..Len(ids) : i < j => f[i] < f[j]

\* C29: sample(n) with n >= 0 and sample(undefined, frac) with
\* 0 <= frac <= 1 return exactly min(n, c), respectively floor(c x frac),
\* rows, which are pairwise-distinct source rows listed in source order;
\* for any arguments, including none, the result never has more rows than
\* the source.
SampleReturnsAskedRows ==
    last.op = "sample" =>
        /\ SampleInDomain(last.arg) =>
               /\ Len(cur.rows) = SampleAsked(Len(last.ids), last.arg)
               /\ IsSubsequence(cur.rows, last.ids)
        /\ Len(cur.rows) <= Len(last.ids)

\* the part of C29 about the calls in its domain
SampleInDomainReturnsAskedRows ==
    (last.op = "sample" /\ SampleInDomain(last.arg)) =>
        /\ Len(cur.rows) = SampleAsked(Len(last.ids), last.arg)
        /\ IsSubsequence(cur.rows, last.ids)
        /\ Len(cur.rows) <= Len(last.ids)

\* the part of C29 about termination: a call in its domain returns
SampleTerminates ==
    (last.op = "sampling" /\ SampleInDomain(last.arg)) ~> (last.op = "sample")

(***************************************************************************)
(* reverse, once and twice                                                 *)
(***************************************************************************)
ReverseRows == {Row2(F_id, Num(i), F_val, Num(1)) : i \in 1..3}

InitReverse ==
    \E rowsD \in SeqsUpTo(ReverseRows, MaxRows) :
        Build(rowsD, SchemaD, <<>>, SchemaO, MaxSteps)

NextReverse == DoReverse

SpecReverse == InitReverse /\ [][NextReverse]_vars

\* the calls made so far
ReverseCalls == MaxSteps - steps

\* C28: d.reverse() lists d's rows in the opposite order with the same
\* schema and row count, and d.reverse().reverse() has exactly d's rows in
\* d's order (so does every even number of reverse calls).
ReverseIsInvolution ==
    last.op = "reverse" =>
        /\ cur.schema = last.src.schema
        /\ Len(cur.rows) = Len(last.ids)
        /\ \A i \in 1..Len(cur.rows) :
               /\ cur.rows[i] = last.ids[Len(last.ids) + 1 - i]
               /\ heap[cur.rows[i]] = last.src.rows[Len(last.ids) + 1 - i]
        /\ ReverseCalls % 2 = 0 => (cur.rows = d.rows /\ View(cur, heap) = snap)

\* reverse has been called twice on a dataset whose first and last rows differ
ReverseWitness ==
    /\ last.op = "reverse"
    /\ ReverseCalls = 2
    /\ Len(d.rows) = MaxRows
    /\ snap.rows[1] # snap.rows[MaxRows]
    /\ View(cur, heap) = snap

(***************************************************************************)
(* join and merge on the same operands                                     *)
(***************************************************************************)
SchemaT == Schema2(F_uid, "number", F_tag, "number")

TagRows == {Row2(F_uid, k, F_tag, Num(v)) : k \in {Num(1), Num(2), NaN}, v \in {1, 3}}

InitAgree ==
    \E rowsD \in SeqsUpTo(LeftRows, MaxRows - 1), rowsO \in SeqsUpTo(TagRows, MaxRows - 1) :
        Build(rowsD, SchemaD, rowsO, SchemaT, 1)

NextAgree == DoJoin \/ DoMerge

SpecAgree == InitAgree /\ [][NextAgree]_vars

SameMultiset(s, t) == \A x \in Range(s) \cup Range(t) : Count(s, x) = Count(t, x)

\* the rows the latest call returned agree with the rows the other of join
\* and merge returns for the same operands, keys and kind
AgreesWithOther(call, rows) ==
    LET l == call.src
        r == call.oth
        theOther ==
            IF call.op = "join"
            THEN MergeRows(l.rows, r.rows, call.arg.leftKey, call.arg.rightKey,
                           call.arg.type, Suffixes)
            ELSE JoinRows(l.rows, r.rows, call.arg.leftOn, call.arg.rightOn,
                          call.arg.how)
        kind == IF call.op = "join" THEN call.arg.type ELSE call.arg.how
    IN  IF kind = "right" THEN SameMultiset(rows, theOther) ELSE rows = theOther

\* a call of join, or of merge with both keys and a kind join has, on
\* datasets whose schemas share no field name
BothApply(call) ==
    /\ call.op \in {"join", "merge"}
    /\ ~call.threw
    /\ call.op = "merge" => call.arg.how \in {"inner", "left", "right"}
    /\ KeySet(call.src.schema) \cap KeySet(call.oth.schema) = {}

\* C30: for datasets whose schemas share no field name and for kinds inner
\* and left, merge(other, {leftOn, rightOn, how}) returns the same rows in
\* the same order as join(other, leftOn, rightOn, how), and for kind right
\* the two return the same multiset of rows.
JoinAndMergeAgree ==
    BothApply(last) => AgreesWithOther(last, View(cur, heap).rows)

\* a row's value under the key is NaN
HasNaNKey(rows, key) == \E i \in 1..Len(rows) : IsNaN(ObjGet(rows[i], key))

\* the same, for calls where no key value is NaN
JoinAndMergeAgreeWithoutNaN ==
    (/\ BothApply(last)
     /\ LET lk == IF last.op = "join" THEN last.arg.leftKey ELSE last.arg.leftOn
            rk == IF last.op = "join" THEN last.arg.rightKey ELSE last.arg.rightOn
        IN  ~HasNaNKey(last.src.rows, lk) \/ ~HasNaNKey(last.oth.rows, rk))
    => AgreesWithOther(last, View(cur, heap).rows)

====
